---- MODULE Spec2Model ----
(***************************************************************************)
(* Model of the filesystem extraction engine of osv-scalibr                *)
(* (extractor/filesystem/extractor.go): Run, InitWalkContext, RunFS, the   *)
(* per-entry handler handleFile, the extractor dispatch runExtractor and   *)
(* the path resolution helpers.                                            *)
(*                                                                         *)
(* A path is a sequence of one-character strings, so that the byte-level   *)
(* operations of the code (strings.HasPrefix, filepath.Rel, filepath.Join) *)
(* are computed, not assumed.                                              *)
(***************************************************************************)
EXTENDS Integers, Sequences, FiniteSets, TLC

\* ------------------------------------------------------------------------
\* Strings and paths (Go's strings / path/filepath, as used by the code)
\* ------------------------------------------------------------------------

Slash == "/"

Dot == <<".">>

DotDot == <<".", ".">>

RECURSIVE SplitFrom(_, _, _)
\* strings.Split(s, "/") continued from position i, cur being the element read so far.
SplitFrom(s, i, cur) ==
    IF i > Len(s) THEN <<cur>>
    ELSE IF s[i] = Slash THEN <<cur>> \o SplitFrom(s, i + 1, <<>>)
    ELSE SplitFrom(s, i + 1, Append(cur, s[i]))

\* strings.Split(s, "/"): the elements between the separators, empty ones included.
Split(s) == SplitFrom(s, 1, <<>>)

RECURSIVE JoinElems(_)
\* strings.Join(elems, "/").
JoinElems(elems) ==
    IF Len(elems) = 0 THEN <<>>
    ELSE IF Len(elems) = 1 THEN elems[1]
    ELSE elems[1] \o <<Slash>> \o JoinElems(Tail(elems))

\* strings.HasPrefix(s, prefix): a byte-level prefix test.
HasPrefix(s, prefix) ==
    /\ Len(prefix) <= Len(s)
    /\ SubSeq(s, 1, Len(prefix)) = prefix

\* A nil *regexp.Regexp (a compiled pattern is never empty: the command line
\* compiles SkipDirRegex only when it is not "").
NilRegexp == <<>>

\* regexp.MatchString for a literal pattern: an unanchored substring match.
MatchString(re, s) ==
    \E i \in 1..(Len(s) - Len(re) + 1) : SubSeq(s, i, i + Len(re) - 1) = re

IsRooted(p) == Len(p) > 0 /\ p[1] = Slash

RECURSIVE CleanElems(_, _, _)
\* The element stack of filepath.Clean: "" and "." are dropped, ".." removes the
\* element before it (at the root it is dropped, in a relative path it is kept).
CleanElems(elems, out, rooted) ==
    IF Len(elems) = 0 THEN out
    ELSE LET e == Head(elems)
             rest == Tail(elems)
         IN  IF e = <<>> \/ e = Dot THEN CleanElems(rest, out, rooted)
             ELSE IF e = DotDot
                  THEN IF Len(out) > 0 /\ out[Len(out)] # DotDot
                       THEN CleanElems(rest, SubSeq(out, 1, Len(out) - 1), rooted)
                       ELSE IF rooted THEN CleanElems(rest, out, rooted)
                       ELSE CleanElems(rest, Append(out, e), rooted)
             ELSE CleanElems(rest, Append(out, e), rooted)

\* The result of filepath.Clean from the cleaned elements joined: "/" is put back
\* before a rooted path, and an empty relative path is ".".
CleanJoined(rooted, body) ==
    IF rooted THEN <<Slash>> \o body
    ELSE IF body = <<>> THEN Dot
    ELSE body

\* filepath.Clean(p).
Clean(p) ==
    CleanJoined(IsRooted(p), JoinElems(CleanElems(Split(p), <<>>, IsRooted(p))))

\* The elements of a cleaned path ("/" and "." have none).
Elems(p) == CleanElems(Split(p), <<>>, IsRooted(p))

\* The process's working directory, used by filepath.Abs for relative paths.
Cwd == <<Slash>>

\* filepath.Abs(p): p cleaned when absolute, joined to the working directory otherwise.
Abs(p) ==
    IF IsRooted(p) THEN Clean(p) ELSE Clean(Cwd \o <<Slash>> \o p)

\* filepath.Join(a, b): the non-empty elements joined by a separator, then cleaned.
FilepathJoin(a, b) ==
    IF a = <<>> THEN (IF b = <<>> THEN <<>> ELSE Clean(b))
    ELSE IF b = <<>> THEN Clean(a)
    ELSE Clean(a \o <<Slash>> \o b)

RECURSIVE CommonLen(_, _)
\* The number of leading elements two element lists share.
CommonLen(a, b) ==
    IF Len(a) = 0 \/ Len(b) = 0 \/ Head(a) # Head(b) THEN 0
    ELSE 1 + CommonLen(Tail(a), Tail(b))

\* The elements of filepath.Rel: one ".." for every element of base after the k
\* common elements, then the rest of targ.
RelElems(b, t, k) ==
    [i \in 1..(Len(b) - k) |-> DotDot] \o SubSeq(t, k + 1, Len(t))

\* "." for no element, the elements joined otherwise.
DotIfEmpty(elems) == IF elems = <<>> THEN Dot ELSE JoinElems(elems)

\* filepath.Rel(base, targ) for two absolute paths.
Rel(base, targ) ==
    DotIfEmpty(RelElems(Elems(base), Elems(targ), CommonLen(Elems(base), Elems(targ))))

\* No element is empty, "." or "..".
PlainElems(elems) ==
    \A i \in 1..Len(elems) : elems[i] \notin {<<>>, Dot, DotDot}

\* fs.ValidPath(name): unrooted, slash-separated, no empty, "." or ".." element,
\* except that the root is named ".".
ValidPath(name) ==
    IF name = Dot THEN TRUE
    ELSE Len(name) > 0 /\ PlainElems(Split(name))

\* ------------------------------------------------------------------------
\* The scanned host: a filesystem and the extractor plugins
\* ------------------------------------------------------------------------

None == "none"

pA == <<"/", "a">>

pA_B == <<"/", "a", "/", "b">>

pA_B_F == <<"/", "a", "/", "b", "/", "f">>

pA_C == <<"/", "a", "/", "c">>

pA_D == <<"/", "a", "/", "d">>

pA_G == <<"/", "a", "/", "g">>

pA_H == <<"/", "a", "/", "h">>

pA_L == <<"/", "a", "/", "l">>

pA_P == <<"/", "a", "/", "p">>

pAB == <<"/", "a", "b">>

pAB_B == <<"/", "a", "b", "/", "b">>

pAB_B_F == <<"/", "a", "b", "/", "b", "/", "f">>

\* Three homebrew prefixes, each holding one install receipt: /h the plain one,
\* /k one of a version that ends in a letter, /m one spelled in capitals.
pH == <<"/", "h">>

pK == <<"/", "k">>

pM == <<"/", "m">>

cellarDir == <<"c", "e", "l", "l", "a", "r">>

CellarDir == <<"C", "e", "l", "l", "a", "r">>

treeDir == <<"t", "r", "e", "e">>

TreeDir == <<"T", "r", "e", "e">>

version11 == <<"1", ".", "1">>

version11a == <<"1", ".", "1", "a">>

receiptFile == <<"i", "n", "s", "t", "a", "l", "l", "_", "r", "e", "c", "e", "i", "p", "t", ".", "j", "s", "o", "n">>

ReceiptFile == <<"I", "N", "S", "T", "A", "L", "L", "_", "R", "E", "C", "E", "I", "P", "T", ".", "j", "s", "o", "n">>

\* dir/name.
Under(dir, name) == dir \o <<Slash>> \o name

\* One entry of the host filesystem. kind is the entry's own type (what a directory
\* listing reports); target is what a symlink resolves to ("none": dangling).
Node(path, kind) ==
    [path |-> path, kind |-> kind, target |-> None, readDirErr |-> None,
     openErr |-> FALSE, fstatErr |-> FALSE]

\* The host's entries, every directory before its children and the children of one
\* directory in the order its listing returns them.
FSTree ==
    << Node(pA, "dir"),
       Node(pA_B, "dir"),
       Node(pA_B_F, "reg"),
       [Node(pA_C, "dir") EXCEPT !.readDirErr = "permission"],
       Node(pA_D, "symlink"),
       [Node(pA_G, "reg") EXCEPT !.openErr = TRUE],
       [Node(pA_H, "reg") EXCEPT !.fstatErr = TRUE],
       [Node(pA_L, "symlink") EXCEPT !.target = "reg"],
       Node(pA_P, "pipe"),
       Node(pAB, "dir"),
       Node(pAB_B, "dir"),
       Node(pAB_B_F, "reg"),
       Node(pH, "dir"),
       Node(Under(pH, cellarDir), "dir"),
       Node(Under(Under(pH, cellarDir), treeDir), "dir"),
       Node(Under(Under(Under(pH, cellarDir), treeDir), version11), "dir"),
       Node(Under(Under(Under(Under(pH, cellarDir), treeDir), version11), receiptFile),
            "reg"),
       Node(pK, "dir"),
       Node(Under(pK, cellarDir), "dir"),
       Node(Under(Under(pK, cellarDir), treeDir), "dir"),
       Node(Under(Under(Under(pK, cellarDir), treeDir), version11a), "dir"),
       Node(Under(Under(Under(Under(pK, cellarDir), treeDir), version11a), receiptFile),
            "reg"),
       Node(pM, "dir"),
       Node(Under(pM, CellarDir), "dir"),
       Node(Under(Under(pM, CellarDir), TreeDir), "dir"),
       Node(Under(Under(Under(pM, CellarDir), TreeDir), version11), "dir"),
       Node(Under(Under(Under(Under(pM, CellarDir), TreeDir), version11), ReceiptFile),
            "reg") >>

Exists(abs) == \E i \in 1..Len(FSTree) : FSTree[i].path = abs

Lookup(abs) == FSTree[CHOOSE i \in 1..Len(FSTree) : FSTree[i].path = abs]

\* The host path that name denotes in os.DirFS(root).
HostPath(root, name) == FilepathJoin(root, name)

\* The file info of a host entry, symlinks followed (here: the resolved type).
StatNode(n) ==
    IF n.kind = "symlink"
    THEN IF n.target = None THEN [err |-> "notexist", type |-> None]
         ELSE [err |-> None, type |-> n.target]
    ELSE [err |-> None, type |-> n.kind]

\* os.Stat of a host path.
StatHost(abs) ==
    IF ~Exists(abs) THEN [err |-> "notexist", type |-> None]
    ELSE StatNode(Lookup(abs))

\* fs.Stat(os.DirFS(root), name): follows symlinks; the name must be a valid
\* fs path. The result is the file info or an error.
Stat(root, name) ==
    IF ~ValidPath(name) THEN [err |-> "invalid", type |-> None]
    ELSE StatHost(HostPath(root, name))

AllButLast(e) == SubSeq(e, 1, Len(e) - 1)

Last(e) == IF Len(e) = 0 THEN <<>> ELSE e[Len(e)]

\* The parent directory of a host path.
Parent(abs) == <<Slash>> \o JoinElems(AllButLast(Elems(abs)))

\* filepath.Base of a cleaned path.
BaseName(p) == Last(Elems(p))

RECURSIVE ChildrenFrom(_, _)
\* The entries of directory dir among FSTree[i..], in listing order.
ChildrenFrom(dir, i) ==
    IF i > Len(FSTree) THEN <<>>
    ELSE IF FSTree[i].path # dir /\ Parent(FSTree[i].path) = dir
         THEN <<FSTree[i]>> \o ChildrenFrom(dir, i + 1)
         ELSE ChildrenFrom(dir, i + 1)

\* The listing of a host directory.
ReadDirNode(n) ==
    IF n.readDirErr # None THEN [err |-> n.readDirErr, entries |-> <<>>]
    ELSE [err |-> None, entries |-> ChildrenFrom(n.path, 1)]

\* fs.ReadDir(os.DirFS(root), name): the directory's entries, or an error.
ReadDir(root, name) == ReadDirNode(Lookup(HostPath(root, name)))

\* os.Open of a host path, symlinks followed.
OpenHost(abs) ==
    IF StatHost(abs).err # None THEN [err |-> "notexist", file |-> None]
    ELSE IF Lookup(abs).openErr THEN [err |-> "permission", file |-> None]
    ELSE [err |-> None, file |-> abs]

\* os.DirFS(root).Open(name): the open file (its host path) or an error.
Open(root, name) ==
    IF ~ValidPath(name) THEN [err |-> "invalid", file |-> None]
    ELSE OpenHost(HostPath(root, name))

\* The file info of an open host entry.
FileStatNode(n) ==
    IF n.fstatErr THEN [err |-> "io", type |-> None]
    ELSE [err |-> None, type |-> IF n.kind = "symlink" THEN n.target ELSE n.kind]

\* (*os.File).Stat() of an open file.
FileStat(file) == FileStatNode(Lookup(file))

\* ------------------------------------------------------------------------
\* The homebrew extractor (package homebrew)
\* ------------------------------------------------------------------------

UpperCase ==
    <<"A", "B", "C", "D", "E", "F", "G", "H", "I", "J", "K", "L", "M",
      "N", "O", "P", "Q", "R", "S", "T", "U", "V", "W", "X", "Y", "Z">>

LowerCase ==
    <<"a", "b", "c", "d", "e", "f", "g", "h", "i", "j", "k", "l", "m",
      "n", "o", "p", "q", "r", "s", "t", "u", "v", "w", "x", "y", "z">>

Digits == {"0", "1", "2", "3", "4", "5", "6", "7", "8", "9"}

Letters ==
    {UpperCase[i] : i \in 1..Len(UpperCase)} \cup {LowerCase[i] : i \in 1..Len(LowerCase)}

\* strings.ToLower of one character.
ToLowerChar(c) ==
    IF \E i \in 1..Len(UpperCase) : UpperCase[i] = c
    THEN LowerCase[CHOOSE i \in 1..Len(UpperCase) : UpperCase[i] = c]
    ELSE c

\* strings.ToLower(s).
ToLower(s) == [i \in 1..Len(s) |-> ToLowerChar(s[i])]

\* strings.Contains(s, substr).
Contains(s, substr) ==
    \E i \in 1..(Len(s) - Len(substr) + 1) : SubSeq(s, i, i + Len(substr) - 1) = substr

\* \w at position i of s (no character outside s is a word character).
WordAt(s, i) ==
    /\ i \in 1..Len(s)
    /\ s[i] \in Letters \cup Digits \cup {"_"}

\* \b before position i of s: a word character on exactly one side.
BoundaryAt(s, i) == WordAt(s, i - 1) # WordAt(s, i)

\* [^A-Za-z \/] at position i of s.
VersionCharAt(s, i) ==
    /\ i \in 1..Len(s)
    /\ s[i] \notin Letters \cup {" ", Slash}

\* The literal lit at position i of s.
LitAt(s, i, lit) ==
    /\ i + Len(lit) - 1 <= Len(s)
    /\ SubSeq(s, i, i + Len(lit) - 1) = lit

\* . at position i of s.
AnyAt(s, i) == i \in 1..Len(s)

\* \binstall_receipt.json at position i of s.
ReceiptAt(s, i) ==
    /\ BoundaryAt(s, i)
    /\ LitAt(s, i, <<"i", "n", "s", "t", "a", "l", "l", "_", "r", "e", "c", "e", "i", "p", "t">>)
    /\ AnyAt(s, i + 15)
    /\ LitAt(s, i + 16, <<"j", "s", "o", "n">>)

\* \w+.\bwrapper.sh at position i of s.
WrapperAt(s, i) ==
    \E n \in 1..Len(s) :
        /\ \A j \in i..(i + n - 1) : WordAt(s, j)
        /\ AnyAt(s, i + n)
        /\ BoundaryAt(s, i + n + 1)
        /\ LitAt(s, i + n + 1, <<"w", "r", "a", "p", "p", "e", "r">>)
        /\ AnyAt(s, i + n + 8)
        /\ LitAt(s, i + n + 9, <<"s", "h">>)

\* \/[^A-Za-z \/]+\/(\binstall_receipt.json|(\w+.\bwrapper.sh)) at position i.
VersionAndFileAt(s, i) ==
    /\ LitAt(s, i, <<Slash>>)
    /\ \E m \in 1..Len(s) :
          /\ \A j \in (i + 1)..(i + m) : VersionCharAt(s, j)
          /\ LitAt(s, i + m + 1, <<Slash>>)
          /\ ReceiptAt(s, i + m + 2) \/ WrapperAt(s, i + m + 2)

\* \/\w+ followed by the rest of the pattern, at position i.
NameAndRestAt(s, i) ==
    /\ LitAt(s, i, <<Slash>>)
    /\ \E n \in 1..Len(s) :
          /\ \A j \in (i + 1)..(i + n) : WordAt(s, j)
          /\ VersionAndFileAt(s, i + n + 1)

\* The pattern r at position i of s.
BrewPatternAt(s, i) ==
    /\ BoundaryAt(s, i)
    /\ \/ LitAt(s, i, <<"c", "e", "l", "l", "a", "r">>) /\ NameAndRestAt(s, i + 6)
       \/ LitAt(s, i, <<"c", "a", "s", "k", "r", "o", "o", "m">>) /\ NameAndRestAt(s, i + 8)

\* r.MatchString(s): the pattern matches somewhere in s.
BrewMatchString(s) == \E i \in 1..Len(s) : BrewPatternAt(s, i)

\* A BrewPath from the last three parts of a path.
BrewPath(pathParts) ==
    [AppName |-> ToLower(pathParts[Len(pathParts) - 2]),
     AppVersion |-> ToLower(pathParts[Len(pathParts) - 1]),
     AppFile |-> ToLower(pathParts[Len(pathParts)])]

\* SplitPath(path) (a path of fewer than three parts is an index out of range).
SplitPath(path) == BrewPath(Split(path))

\* The tests FileRequired makes on the split path.
BrewFileMatches(filePath, p) ==
    IF Contains(filePath, <<"c", "e", "l", "l", "a", "r">>) /\ p.AppFile # <<"i", "n", "s", "t", "a", "l", "l", "_", "r", "e", "c", "e", "i", "p", "t", ".", "j", "s", "o", "n">>
    THEN FALSE
    ELSE IF Contains(filePath, <<"c", "a", "s", "k", "r", "o", "o", "m">>)
            /\ p.AppFile # p.AppName \o <<".", "w", "r", "a", "p", "p", "e", "r", ".", "s", "h">>
    THEN FALSE
    ELSE TRUE

\* FileRequired on the lower-cased path.
BrewFileRequiredLower(filePath) ==
    IF ~BrewMatchString(filePath) THEN FALSE
    ELSE BrewFileMatches(filePath, SplitPath(filePath))

\* homebrew Extractor.FileRequired(path, fileinfo).
BrewFileRequired(path, fileinfo) == BrewFileRequiredLower(ToLower(path))

\* The one Inventory of Extract.
BrewInventory(p, path) ==
    [Name |-> p.AppName, Version |-> p.AppVersion, Locations |-> <<path>>,
     Extractor |-> None]

\* homebrew Extractor.Extract(ctx, input).
BrewExtract(input) ==
    [results |-> <<BrewInventory(SplitPath(input.Path), input.Path)>>, err |-> None]

\* homebrew Extractor.Name().
BrewName == "os/homebrew"

\* The plugins. FileRequired sees the path relative to the scan root only.
ExtractorNames == {"e1", "e2"}

FileRequired(ex, path, fileinfo) ==
    IF ex = BrewName THEN BrewFileRequired(path, fileinfo)
    ELSE IF ex = "e1" THEN BaseName(path) \in {<<"f">>, <<"g">>, <<"h">>}
    ELSE BaseName(path) \in {<<"f">>, <<"g">>, <<"l">>}

\* An Inventory as the plugin returns it: the engine sets Extractor afterwards.
Item(name, path) ==
    [Name |-> name, Version |-> "1", Locations |-> <<path>>, Extractor |-> None]

\* Extract(ctx, input): a deterministic function of the plugin and the file read
\* through input.Reader; it may return inventory, an error, or both.
Extract(ex, input) ==
    CASE ex = BrewName -> BrewExtract(input)
      [] ex = "e1" /\ input.Reader = pA_B_F ->
           [results |-> <<Item("pkg1", input.Path)>>, err |-> None]
      [] ex = "e2" /\ input.Reader = pA_B_F ->
           [results |-> <<>>, err |-> "parse"]
      [] ex = "e1" /\ input.Reader = pAB_B_F ->
           [results |-> <<Item("pkg1", input.Path)>>, err |-> None]
      [] ex = "e2" /\ input.Reader = pA_L ->
           [results |-> <<Item("pkg1", input.Path), Item("pkg2", input.Path)>>,
            err |-> "parse"]
      [] OTHER -> [results |-> <<>>, err |-> None]

\* ------------------------------------------------------------------------
\* extractor.go: errors, status, path resolution
\* ------------------------------------------------------------------------

ErrNotRelativeToScanRoots == "path not relative to any of the scan roots"

ErrMaxInodes == "maxInodes exceeded"

ErrCanceled == "context canceled"

SkipDir == "skip this directory"

\* One per-file failure: fmt.Errorf("Open(%s): %v"), ("stat(%s): %v"), ("%s: %w").
ErrLine(op, path, cause) == [op |-> op, path |-> path, cause |-> cause]

\* m[key] of a Go map, with the zero value for a missing key.
MapGet(m, key, zero) == IF key \in DOMAIN m THEN m[key] ELSE zero

\* m[key] = value of a Go map.
MapSet(m, key, value) ==
    [k \in (DOMAIN m) \cup {key} |-> IF k = key THEN value ELSE m[k]]

EmptyMap == [k \in {} |-> None]

\* addErrToMap with the chaining dropped: a later error replaces the earlier ones.
addErrToMap_Overwrite(errors, key, err) ==
    MapSet(errors, key, <<err>>)

\* addErrToMap: the first error of a key is stored, a later one is joined to the
\* earlier ones ("%w\n%w"); the joined error is modelled as the list of its lines.
addErrToMap(errors, key, err) ==
    IF key \notin DOMAIN errors THEN MapSet(errors, key, <<err>>)
    ELSE MapSet(errors, key, errors[key] \o <<err>>)

\* plugin.StatusFromErr(plugin, partial, err): the status table of the data model.
StatusFromErr(ex, found, err) ==
    [Name |-> ex,
     Status |-> IF err = <<>>
                THEN (IF found THEN "Succeeded" ELSE "NoResults")
                ELSE (IF found THEN "PartiallyFailed" ELSE "Failed"),
     FailureReason |-> err]

\* errToExtractorStatus reading "some extractor found inventory" for every extractor.
errToExtractorStatus_AnyFound(extractors, foundInv, errors) ==
    [i \in 1..Len(extractors) |->
        StatusFromErr(extractors[i], \E k \in DOMAIN foundInv : foundInv[k],
                      MapGet(errors, extractors[i], <<>>))]

\* errToExtractorStatus: one status per configured extractor, in configuration order.
errToExtractorStatus(extractors, foundInv, errors) ==
    [i \in 1..Len(extractors) |->
        StatusFromErr(extractors[i], MapGet(foundInv, extractors[i], FALSE),
                      MapGet(errors, extractors[i], <<>>))]

\* expandAbsolutePath gluing the location to the scan root without a separator.
expandAbsolutePath_NoJoin(scanRoot, paths) ==
    [i \in 1..Len(paths) |-> scanRoot \o paths[i]]

\* expandAbsolutePath: every location joined to the scan root.
expandAbsolutePath(scanRoot, paths) ==
    [i \in 1..Len(paths) |-> FilepathJoin(scanRoot, paths[i])]

\* expandAllAbsolutePaths: filepath.Abs of every scan root.
expandAllAbsolutePaths(paths) == [i \in 1..Len(paths) |-> Abs(paths[i])]

RECURSIVE stripFromAtLeastOnePrefix(_, _)
\* stripFromAtLeastOnePrefix: the path relative to the first prefix that
\* strings.HasPrefix accepts, or ErrNotRelativeToScanRoots.
stripFromAtLeastOnePrefix(path, prefixes) ==
    IF Len(prefixes) = 0 THEN [rel |-> <<>>, err |-> ErrNotRelativeToScanRoots]
    ELSE IF ~HasPrefix(path, Head(prefixes))
         THEN stripFromAtLeastOnePrefix(path, Tail(prefixes))
         ELSE [rel |-> Rel(Head(prefixes), path), err |-> None]

\* stripAllPathPrefixes' loop body: rp is the first path stripped, rest the result
\* for the paths after it.
StrippedFirst(rp, rest) ==
    IF rp.err # None THEN [result |-> <<>>, err |-> rp.err]
    ELSE IF rest.err # None THEN [result |-> <<>>, err |-> rest.err]
    ELSE [result |-> <<rp.rel>> \o rest.result, err |-> None]

RECURSIVE stripAllPathPrefixes(_, _)
\* stripAllPathPrefixes: every path made absolute and stripped; the first failure
\* fails the whole call.
stripAllPathPrefixes(paths, prefixes) ==
    IF Len(paths) = 0 THEN [result |-> <<>>, err |-> None]
    ELSE StrippedFirst(stripFromAtLeastOnePrefix(Abs(Head(paths)), prefixes),
                       stripAllPathPrefixes(Tail(paths), prefixes))

\* pathStringListToMap: the map's key set.
pathStringListToMap(paths) == {paths[i] : i \in 1..Len(paths)}

\* The zero walkContext (before InitWalkContext has run).
ZeroWalkContext ==
    [stats |-> None, extractors |-> <<>>, fs |-> None, scanRoot |-> <<>>,
     filesToExtract |-> <<>>, dirsToSkip |-> {}, skipDirRegex |-> NilRegexp,
     maxInodes |-> 0, inodesVisited |-> 0, storeAbsolutePath |-> FALSE,
     inventory |-> <<>>, errors |-> EmptyMap, foundInv |-> EmptyMap,
     readSymlinks |-> FALSE, extractCalls |-> 0,
     lastStatus |-> 0, lastInodes |-> 0, lastExtracts |-> 0]

\* InitWalkContext: files_to_extract and dirs_to_skip are resolved against the scan
\* roots once, for the whole run; the counters and result collections start empty.
NewWalkContext(config, filesToExtract, dirsToSkip) ==
    IF filesToExtract.err # None
    THEN [wc |-> ZeroWalkContext, err |-> filesToExtract.err]
    ELSE IF dirsToSkip.err # None
    THEN [wc |-> ZeroWalkContext, err |-> dirsToSkip.err]
    ELSE [wc |-> [ZeroWalkContext EXCEPT
                    !.stats = config.Stats,
                    !.extractors = config.Extractors,
                    !.filesToExtract = filesToExtract.result,
                    !.dirsToSkip = pathStringListToMap(dirsToSkip.result),
                    !.skipDirRegex = config.SkipDirRegex,
                    !.readSymlinks = config.ReadSymlinks,
                    !.maxInodes = config.MaxInodes,
                    !.inodesVisited = 0,
                    !.storeAbsolutePath = config.StoreAbsolutePath],
          err |-> None]

InitWalkContext(config, absScanRoots) ==
    NewWalkContext(config,
                   stripAllPathPrefixes(config.FilesToExtract, absScanRoots),
                   stripAllPathPrefixes(config.DirsToSkip, absScanRoots))

\* UpdateScanRoot that also restarts the inode counter for the new root.
UpdateScanRoot_ResetCount(wc, absRoot, fsys) ==
    [wc EXCEPT !.scanRoot = absRoot, !.fs = fsys, !.inodesVisited = 0]

\* UpdateScanRoot that switches the filesystem and leaves the scan root as it was.
UpdateScanRoot_KeepRoot(wc, absRoot, fsys) ==
    [wc EXCEPT !.fs = fsys]

\* UpdateScanRoot: the walk context is pointed at the next root; nothing else of
\* it is touched.
UpdateScanRoot(wc, absRoot, fsys) ==
    [wc EXCEPT !.scanRoot = absRoot, !.fs = fsys]

\* ------------------------------------------------------------------------
\* extractor.go: the per-entry handler and the extractor dispatch
\* ------------------------------------------------------------------------

\* A call the engine makes on a plugin or on the filesystem, as recorded in the
\* history of the run.
Call(op, ex, root, path, ok, results) ==
    [op |-> op, ex |-> ex, root |-> root, path |-> path, ok |-> ok, results |-> results]

\* shouldSkipDir: the path is a key of dirsToSkip, or the skip regex matches it.
shouldSkipDir(wc, path) ==
    IF path \in wc.dirsToSkip THEN TRUE
    ELSE IF wc.skipDirRegex # NilRegexp THEN MatchString(wc.skipDirRegex, path)
    ELSE FALSE

\* The budget test off by one: the entry that reaches the budget already fails.
InodeBudgetExceeded_AtLimit(wc) ==
    wc.maxInodes > 0 /\ wc.inodesVisited >= wc.maxInodes

\* The budget test of handleFile, made after the entry has been counted.
InodeBudgetExceeded(wc) ==
    wc.maxInodes > 0 /\ wc.inodesVisited > wc.maxInodes

\* handleFile's file-type filter: a non-regular entry is ignored, unless symlinks
\* are read and it is a symlink.
IgnoredType(wc, d) ==
    IF d # "reg"
    THEN IF ~wc.readSymlinks THEN TRUE
         ELSE d # "symlink"
    ELSE FALSE

\* The outcome of the part of handleFile that precedes the extractor loop: the
\* updated walk context, the value returned (when it returns there) and, when the
\* entry is to be dispatched, its file info.
Handled(wc, ret, dispatch, fileinfo) ==
    [wc |-> wc, ret |-> ret, dispatch |-> dispatch, fileinfo |-> fileinfo]

\* The end of handleFile before the extractor loop: the entry is stat'ed again
\* through the filesystem and dropped when that fails.
HandleStatted(wc, fileinfo) ==
    IF fileinfo.err # None THEN Handled(wc, None, FALSE, None)
    ELSE Handled(wc, None, TRUE, fileinfo)

\* handleFile returning the entry's error to the walker instead of dropping the entry.
HandleCounted_ReturnsFserr(wc, path, d, fserr, canceled) ==
    IF InodeBudgetExceeded(wc) THEN Handled(wc, ErrMaxInodes, FALSE, None)
    ELSE IF wc.stats = None THEN Handled(wc, "panic", FALSE, None)
    ELSE IF canceled THEN Handled(wc, ErrCanceled, FALSE, None)
    ELSE IF fserr # None THEN Handled(wc, fserr, FALSE, None)
    ELSE IF d = "dir"
         THEN IF shouldSkipDir(wc, path) THEN Handled(wc, SkipDir, FALSE, None)
              ELSE Handled(wc, None, FALSE, None)
    ELSE IF IgnoredType(wc, d) THEN Handled(wc, None, FALSE, None)
    ELSE HandleStatted(wc, Stat(wc.fs, path))

\* handleFile after the entry has been counted.
HandleCounted(wc, path, d, fserr, canceled) ==
    IF InodeBudgetExceeded(wc) THEN Handled(wc, ErrMaxInodes, FALSE, None)
    ELSE IF wc.stats = None THEN Handled(wc, "panic", FALSE, None)
    ELSE IF canceled THEN Handled(wc, ErrCanceled, FALSE, None)
    ELSE IF fserr # None THEN Handled(wc, None, FALSE, None)
    ELSE IF d = "dir"
         THEN IF shouldSkipDir(wc, path) THEN Handled(wc, SkipDir, FALSE, None)
              ELSE Handled(wc, None, FALSE, None)
    ELSE IF IgnoredType(wc, d) THEN Handled(wc, None, FALSE, None)
    ELSE HandleStatted(wc, Stat(wc.fs, path))

\* printStatus(path): when two seconds have passed since the last status line
\* (due), a line is logged and the time and the two counters are remembered.
\* lastStatus is a time, counted in status lines since InitWalkContext.
printStatus(wc, path, due) ==
    IF ~due THEN wc
    ELSE [wc EXCEPT !.lastStatus = @ + 1,
                    !.lastInodes = wc.inodesVisited,
                    !.lastExtracts = wc.extractCalls]

\* handleFile counting the entry as an Extract call as well.
handleFile_CountsCall(wc, path, d, fserr, canceled, due) ==
    HandleCounted([printStatus(wc, path, due) EXCEPT !.inodesVisited = @ + 1,
                                                     !.extractCalls = @ + 1],
                  path, d, fserr, canceled)

\* handleFile(path, d, fserr) up to the extractor loop: the entry is counted, then
\* the budget, the metrics hook (a nil hook panics), the scan context
\* (canceled: ctx.Err() != nil), the entry's error and its type are looked at.
handleFile(wc, path, d, fserr, canceled, due) ==
    HandleCounted([printStatus(wc, path, due) EXCEPT !.inodesVisited = @ + 1],
                  path, d, fserr, canceled)

\* The result handling of runExtractor putting new items in front of the inventory.
AppendResults_Prepend(wc, ex, results) ==
    IF Len(results) > 0
    THEN [wc EXCEPT
            !.foundInv = MapSet(@, ex, TRUE),
            !.inventory =
                [i \in 1..Len(results) |->
                    [results[i] EXCEPT
                        !.Extractor = ex,
                        !.Locations = IF wc.storeAbsolutePath
                                      THEN expandAbsolutePath(wc.scanRoot, @)
                                      ELSE @]] \o @]
    ELSE wc

\* The result handling of runExtractor marking the plugin as having found
\* inventory whatever Extract returned.
AppendResults_FoundAlways(wc, ex, results) ==
    [wc EXCEPT
        !.foundInv = MapSet(@, ex, TRUE),
        !.inventory = @ \o
            [i \in 1..Len(results) |->
                [results[i] EXCEPT
                    !.Extractor = ex,
                    !.Locations = IF wc.storeAbsolutePath
                                  THEN expandAbsolutePath(wc.scanRoot, @)
                                  ELSE @]]]

\* The result handling of runExtractor: the plugin is marked as having found
\* inventory and every item is stamped with the plugin, has its locations made
\* absolute when configured, and is appended to the inventory.
AppendResults(wc, ex, results) ==
    IF Len(results) > 0
    THEN [wc EXCEPT
            !.foundInv = MapSet(@, ex, TRUE),
            !.inventory = @ \o
                [i \in 1..Len(results) |->
                    [results[i] EXCEPT
                        !.Extractor = ex,
                        !.Locations = IF wc.storeAbsolutePath
                                      THEN expandAbsolutePath(wc.scanRoot, @)
                                      ELSE @]]]
    ELSE wc

\* The error handling of runExtractor after Extract has returned.
RecordExtractErr(wc, ex, path, err) ==
    IF err # None
    THEN [wc EXCEPT !.errors = addErrToMap(@, ex, ErrLine("Extract", path, err))]
    ELSE wc

\* The outcome of runExtractor: the updated walk context, the calls it made (for
\* the history) and whether it panicked.
Ran(wc, calls, panic) == [wc |-> wc, calls |-> calls, panic |-> panic]

\* The calls of one runExtractor, in order.
Calls(ex, root, path, ops) ==
    [i \in 1..Len(ops) |-> Call(ops[i].op, ex, root, path, ops[i].ok, ops[i].results)]

Op(op, ok, results) == [op |-> op, ok |-> ok, results |-> results]

\* runExtractor giving up on the file when Extract fails: the error is recorded
\* and whatever the plugin returned with it is dropped.
RunExtracted_DropOnErr(wc, ex, path, out) ==
    IF wc.stats = None
    THEN Ran(wc, Calls(ex, wc.scanRoot, path,
                       <<Op("FileRequired", TRUE, <<>>), Op("Open", TRUE, <<>>),
                         Op("Stat", TRUE, <<>>),
                         Op("Extract", out.err = None, out.results),
                         Op("Close", TRUE, <<>>)>>), TRUE)
    ELSE Ran(IF out.err # None THEN RecordExtractErr(wc, ex, path, out.err)
             ELSE AppendResults(wc, ex, out.results),
             Calls(ex, wc.scanRoot, path,
                   <<Op("FileRequired", TRUE, <<>>), Op("Open", TRUE, <<>>),
                     Op("Stat", TRUE, <<>>),
                     Op("Extract", out.err = None, out.results),
                     Op("Close", TRUE, <<>>)>>), FALSE)

\* runExtractor after Extract has returned out (the handle is closed on return).
RunExtracted(wc, ex, path, out) ==
    IF wc.stats = None
    THEN Ran(wc, Calls(ex, wc.scanRoot, path,
                       <<Op("FileRequired", TRUE, <<>>), Op("Open", TRUE, <<>>),
                         Op("Stat", TRUE, <<>>),
                         Op("Extract", out.err = None, out.results),
                         Op("Close", TRUE, <<>>)>>), TRUE)
    ELSE Ran(AppendResults(RecordExtractErr(wc, ex, path, out.err), ex, out.results),
             Calls(ex, wc.scanRoot, path,
                   <<Op("FileRequired", TRUE, <<>>), Op("Open", TRUE, <<>>),
                     Op("Stat", TRUE, <<>>),
                     Op("Extract", out.err = None, out.results),
                     Op("Close", TRUE, <<>>)>>), FALSE)

\* runExtractor returning on a failed stat with the handle left open.
RunStatted_NoClose(wc, ex, path, rc, info) ==
    IF info.err # None
    THEN Ran([wc EXCEPT !.errors = addErrToMap(@, ex, ErrLine("stat", path, info.err))],
             Calls(ex, wc.scanRoot, path,
                   <<Op("FileRequired", TRUE, <<>>), Op("Open", TRUE, <<>>),
                     Op("Stat", FALSE, <<>>)>>), FALSE)
    ELSE RunExtracted([wc EXCEPT !.extractCalls = @ + 1], ex, path,
                      Extract(ex, [Path |-> path, ScanRoot |-> wc.scanRoot,
                                   Info |-> info, Reader |-> rc.file]))

\* runExtractor after the open handle rc has been stat'ed: a failure is recorded
\* and the handle closed; otherwise the call is counted and Extract invoked.
RunStatted(wc, ex, path, rc, info) ==
    IF info.err # None
    THEN Ran([wc EXCEPT !.errors = addErrToMap(@, ex, ErrLine("stat", path, info.err))],
             Calls(ex, wc.scanRoot, path,
                   <<Op("FileRequired", TRUE, <<>>), Op("Open", TRUE, <<>>),
                     Op("Stat", FALSE, <<>>), Op("Close", TRUE, <<>>)>>), FALSE)
    ELSE RunExtracted([wc EXCEPT !.extractCalls = @ + 1], ex, path,
                      Extract(ex, [Path |-> path, ScanRoot |-> wc.scanRoot,
                                   Info |-> info, Reader |-> rc.file]))

\* runExtractor leaving a failed Open unrecorded.
RunOpened_NoRecord(wc, ex, path, rc) ==
    IF rc.err # None
    THEN Ran(wc, Calls(ex, wc.scanRoot, path,
                       <<Op("FileRequired", TRUE, <<>>), Op("Open", FALSE, <<>>)>>), FALSE)
    ELSE RunStatted(wc, ex, path, rc, FileStat(rc.file))

\* runExtractor after Open: a failure is recorded, nothing is to be closed.
RunOpened(wc, ex, path, rc) ==
    IF rc.err # None
    THEN Ran([wc EXCEPT !.errors = addErrToMap(@, ex, ErrLine("Open", path, rc.err))],
             Calls(ex, wc.scanRoot, path,
                   <<Op("FileRequired", TRUE, <<>>), Op("Open", FALSE, <<>>)>>), FALSE)
    ELSE RunStatted(wc, ex, path, rc, FileStat(rc.file))

\* runExtractor(ex, path, fileinfo): FileRequired, Open, Stat through the handle,
\* Extract, then the bookkeeping; the deferred Close runs on every path after Open.
runExtractor(wc, ex, path, fileinfo) ==
    IF ~FileRequired(ex, path, fileinfo)
    THEN Ran(wc, Calls(ex, wc.scanRoot, path, <<Op("FileRequired", FALSE, <<>>)>>), FALSE)
    ELSE RunOpened(wc, ex, path, Open(wc.fs, path))

\* ------------------------------------------------------------------------
\* The walkers: what is handed to handleFile, and in which order
\* ------------------------------------------------------------------------

\* One invocation of the handler: handleFile(path, d, fserr). d is the entry's type
\* ("none" for a nil DirEntry).
Obs(path, d, fserr) == [path |-> path, d |-> d, fserr |-> fserr]

\* A path that was stat'ed, as handed to the handler: with the error, or with the
\* file info as a DirEntry.
StatObs(path, info) ==
    IF info.err # None THEN Obs(path, None, info.err)
    ELSE Obs(path, info.type, None)

\* WalkDirUnsorted(fsys, ".", fn), first call: the root is stat'ed and handed to fn.
WalkRootObs(fsys) == <<StatObs(Dot, Stat(fsys, Dot))>>

\* The entries of a listed directory as handed to fn: path.Join(dir, name), with the
\* type the listing reports.
ListedObs(dir, listing, rest) ==
    IF listing.err # None THEN <<Obs(dir.path, dir.d, listing.err)>> \o rest
    ELSE [i \in 1..Len(listing.entries) |->
            Obs(FilepathJoin(dir.path, BaseName(listing.entries[i].path)),
                listing.entries[i].kind, None)] \o rest

\* WalkDirUnsorted after fn has returned ret (nil or SkipDir) for obs: a directory
\* that was not skipped is listed and its entries are handed to fn before the
\* entries still pending (rest); a listing error is reported to fn by a second call
\* for the directory.
WalkDirAfter(fsys, obs, ret, rest) ==
    IF ret = SkipDir \/ obs.fserr # None \/ obs.d # "dir" THEN rest
    ELSE ListedObs(obs, ReadDir(fsys, obs.path), rest)

\* walkIndividualFiles: every listed path is stat'ed and handed to fn, in list order.
walkIndividualFiles(fsys, paths) ==
    [i \in 1..Len(paths) |-> StatObs(paths[i], Stat(fsys, paths[i]))]

\* ------------------------------------------------------------------------
\* Run, runOnScanRoot, RunFS as steps of one run
\* ------------------------------------------------------------------------

\* What Run and RunFS return.
Returned(inventory, status, err) ==
    [inventory |-> inventory, status |-> status, err |-> err]

\* Run's return when runOnScanRoot fails: return nil, nil, err.
RunError(inv, st, err) == Returned(<<>>, <<>>, err)

\* Run's accumulation of one root's results.
RunAppend(acc, out) ==
    Returned(acc.inventory \o out.inventory, acc.status \o out.status, None)

\* The start of RunFS: the walker is chosen by filesToExtract.
RunFSWalk(fsys, wc) ==
    IF Len(wc.filesToExtract) > 0 THEN walkIndividualFiles(fsys, wc.filesToExtract)
    ELSE WalkRootObs(fsys)

\* runOnScanRoot: config.FS and the walk context are pointed at the root, and RunFS
\* starts the walk.
runOnScanRoot(s, abs) ==
    [s EXCEPT !.config = [@ EXCEPT !.FS = abs],
              !.wc = UpdateScanRoot(@, abs, abs),
              !.pc = "walk",
              !.todo = RunFSWalk(abs, s.wc)]

\* Run's loop over the scan roots, from root s.rootIdx on; after the last root Run
\* returns what it has accumulated.
RunLoop(s) ==
    IF s.rootIdx > Len(s.scanRoots)
    THEN [s EXCEPT !.pc = "done", !.ret = Returned(s.acc.inventory, s.acc.status, None)]
    ELSE runOnScanRoot(s, Abs(s.scanRoots[s.rootIdx]))

\* What Run does with what RunFS returned (out).
RunFSReturned(s, out) ==
    IF out.err # None
    THEN [s EXCEPT !.runfs = Append(@, out), !.todo = <<>>, !.pc = "done",
                   !.ret = RunError(out.inventory, out.status, out.err)]
    ELSE RunLoop([s EXCEPT !.runfs = Append(@, out), !.todo = <<>>,
                           !.acc = RunAppend(@, out), !.rootIdx = @ + 1])

\* The end of RunFS with the walk's error err.
RunFSReturn(s, err) ==
    RunFSReturned(s, Returned(s.wc.inventory,
                              errToExtractorStatus(s.config.Extractors,
                                                   s.wc.foundInv, s.wc.errors),
                              err))

\* Run once the walk context has been initialised (init).
RunInited(s, scanRoots, init) ==
    IF init.err # None
    THEN [s EXCEPT !.pc = "done", !.ret = Returned(<<>>, <<>>, init.err)]
    ELSE RunLoop([s EXCEPT !.scanRoots = scanRoots, !.wc = init.wc, !.rootIdx = 1])

\* Run up to the first walk.
RunStart(s) ==
    IF Len(s.config.Extractors) = 0
    THEN [s EXCEPT !.pc = "done", !.ret = Returned(<<>>, <<>>, None)]
    ELSE RunInited(s, expandAllAbsolutePaths(s.config.ScanRoots),
                   InitWalkContext(s.config, expandAllAbsolutePaths(s.config.ScanRoots)))

\* The calls of one step, stamped with the walk (the root's index) and the ordinal
\* of the entry being handled, and with whether the scan context was already
\* cancelled when they were made.
Stamp(calls, walk, entry, canceled) ==
    [i \in 1..Len(calls) |->
        [op |-> calls[i].op, ex |-> calls[i].ex, root |-> calls[i].root,
         path |-> calls[i].path, ok |-> calls[i].ok, results |-> calls[i].results,
         walk |-> walk, entry |-> entry, canceled |-> canceled]]

\* One invocation of handleFile, for the history: the entry handed over, the value
\* the handler returned before its extractor loop and whether it entered the loop.
Visit(walk, root, obs, h, canceled) ==
    [walk |-> walk, root |-> root, path |-> obs.path, d |-> obs.d,
     fserr |-> obs.fserr, ret |-> h.ret, dispatch |-> h.dispatch,
     canceled |-> canceled]

\* The walker acts on what handleFile returned (h) for the entry obs: a fatal error
\* ends the walk (RunFS returns it), SkipDir prunes the directory in the tree walk
\* and is an error for walkIndividualFiles, and an entry that passed the filters
\* enters the extractor loop. s is the state with the handler's effects applied.
WalkHandled(s, obs, rest, h, treeWalk) ==
    IF h.ret = "panic" THEN [s EXCEPT !.pc = "panic"]
    ELSE IF h.ret \notin {None, SkipDir} THEN RunFSReturn(s, h.ret)
    ELSE IF h.ret = SkipDir /\ ~treeWalk THEN RunFSReturn(s, SkipDir)
    ELSE IF h.dispatch
    THEN [s EXCEPT !.pc = "dispatch", !.todo = rest, !.exIdx = 1,
                   !.cur = [path |-> obs.path, fileinfo |-> h.fileinfo]]
    ELSE IF treeWalk
    THEN [s EXCEPT !.todo = WalkDirAfter(s.wc.fs, obs, h.ret, rest)]
    ELSE [s EXCEPT !.todo = rest]

\* The walker's call of handleFile for the entry obs, h being the handler's outcome.
WalkCalled(s, obs, rest, h, canceled) ==
    WalkHandled([s EXCEPT !.wc = h.wc,
                          !.visits = Append(@, Visit(s.rootIdx, s.wc.scanRoot, obs, h,
                                                     canceled))],
                obs, rest, h, Len(s.wc.filesToExtract) = 0)

\* The walker hands the next pending entry to handleFile.
WalkStep(s, canceled, due) ==
    WalkCalled(s, Head(s.todo), Tail(s.todo),
               handleFile(s.wc, Head(s.todo).path, Head(s.todo).d,
                          Head(s.todo).fserr, canceled, due),
               canceled)

\* handleFile's extractor loop after one runExtractor (r): after the last extractor
\* the handler returns nil and the walk goes on.
Dispatched(s, r, canceled) ==
    [s EXCEPT !.wc = r.wc,
              !.exIdx = @ + 1,
              !.trace = @ \o Stamp(r.calls, s.rootIdx, Len(s.visits), canceled),
              !.pc = IF r.panic THEN "panic"
                     ELSE IF s.exIdx + 1 > Len(s.wc.extractors) THEN "walk"
                     ELSE "dispatch"]

\* One iteration of handleFile's extractor loop.
DispatchStep(s, canceled) ==
    Dispatched(s, runExtractor(s.wc, s.wc.extractors[s.exIdx], s.cur.path,
                               s.cur.fileinfo), canceled)

\* The walk has no entry left: RunFS returns without error.
WalkEnd(s) == RunFSReturn(s, None)


\* ------------------------------------------------------------------------
\* The configurations checked
\* ------------------------------------------------------------------------

\* The largest inode budget tried (0 disables the budget).
MaxInodesBound == 3

pAB_Slash == <<"/", "a", "b", "/">>

ScanRootChoices ==
    { <<>>, <<pA>>, <<pA, pAB>>, <<pA, pA_B>>, <<pA_B, pAB_Slash>> }

FilesToExtractChoices == { <<>>, <<pA_B_F>>, <<pA_B, pA_G>>, <<pA_L>> }

DirsToSkipChoices == { <<>>, <<pA_B>>, <<pAB_B>> }

SkipDirRegexChoices == { NilRegexp, <<"b">> }

\* A filesystem.Config; FS is set by runOnScanRoot.
Config(exs, roots, files, dirs, re, stats, symlinks, maxInodes, storeAbs) ==
    [Extractors |-> exs, ScanRoots |-> roots, FS |-> None, FilesToExtract |-> files,
     DirsToSkip |-> dirs, SkipDirRegex |-> re, Stats |-> stats,
     ReadSymlinks |-> symlinks, MaxInodes |-> maxInodes, StoreAbsolutePath |-> storeAbs]

\* Every combination of the walk options, for two extractors and a metrics hook.
WalkConfigs ==
    { Config(<<"e1", "e2">>, roots, files, dirs, re, "collector", symlinks, maxInodes, storeAbs) :
        roots \in ScanRootChoices, files \in FilesToExtractChoices,
        dirs \in DirsToSkipChoices, re \in SkipDirRegexChoices,
        symlinks \in BOOLEAN, maxInodes \in 0..MaxInodesBound, storeAbs \in BOOLEAN }

\* Other extractor lists (none, one, the reverse order) and a nil metrics hook.
PluginConfigs ==
    { Config(exs, roots, <<>>, <<>>, NilRegexp, stats, symlinks, maxInodes, FALSE) :
        exs \in { <<>>, <<"e2">>, <<"e2", "e1">>, <<"e1", "e2">> },
        roots \in ScanRootChoices, stats \in { None, "collector" },
        symlinks \in BOOLEAN, maxInodes \in 0..MaxInodesBound }

\* The homebrew extractor on the homebrew prefixes, one or several at a time.
BrewConfigs ==
    { Config(<<BrewName>>, roots, <<>>, <<>>, NilRegexp, "collector", FALSE, 0, storeAbs) :
        roots \in { <<pH>>, <<pK>>, <<pM>>, <<pH, pM>> }, storeAbs \in BOOLEAN }

Configs == WalkConfigs \cup PluginConfigs \cup BrewConfigs

\* The handleFile call of a run during which the two seconds of printStatus run
\* out, when they do.
StatusDueEntry == 4

\* The clocks tried: no status line falls due during the run, or one does.
StatusDueChoices == {0, StatusDueEntry}

\* ------------------------------------------------------------------------
\* The command line (package cli): plugin selection, the capability gate and
\* the detector prerequisites. Flags that play no part in them (result file,
\* outputs, roots, regex, SPDX and CDX fields) are held at values that pass
\* their validation and are left out of the records.
\* ------------------------------------------------------------------------

Comma == ","

RECURSIVE SplitOnFrom(_, _, _, _)
\* strings.Split(s, sep) continued from position i, cur being the item read so far.
SplitOnFrom(s, sep, i, cur) ==
    IF i > Len(s) THEN <<cur>>
    ELSE IF s[i] = sep THEN <<cur>> \o SplitOnFrom(s, sep, i + 1, <<>>)
    ELSE SplitOnFrom(s, sep, i + 1, Append(cur, s[i]))

\* strings.Split(s, ","): the items between the commas, empty ones included.
SplitList(s) == SplitOnFrom(s, Comma, 1, <<>>)

\* What a plugin requires of the host; OS "any" is no requirement.
Requires(os, network, directFS, runningSystem) ==
    [OS |-> os, Network |-> network, DirectFS |-> directFS,
     RunningSystem |-> runningSystem]

NoRequirement == Requires("any", FALSE, FALSE, FALSE)

\* A plugin: its name, its requirements and, for a detector, the extractors it
\* needs.
Plugin(name, requirements, requiredExtractors) ==
    [Name |-> <<name>>, Requirements |-> requirements,
     RequiredExtractors |-> requiredExtractors]

\* The filesystem extractors known by name.
FilesystemExtractorList ==
    << Plugin("fx", NoRequirement, <<>>),
       Plugin("fn", Requires("any", TRUE, FALSE, FALSE), <<>>),
       Plugin("fl", Requires("linux", FALSE, TRUE, FALSE), <<>>),
       Plugin("bx", NoRequirement, <<>>) >>

\* The standalone extractors known by name ("bx" is in both lists).
StandaloneExtractorList ==
    << Plugin("sx", NoRequirement, <<>>),
       Plugin("sr", Requires("any", FALSE, FALSE, TRUE), <<>>),
       Plugin("bx", NoRequirement, <<>>) >>

\* The detectors known by name, with the extractors they require.
DetectorList ==
    << Plugin("dA", NoRequirement, << <<"fn">> >>),
       Plugin("dB", Requires("any", FALSE, FALSE, TRUE), <<>>),
       Plugin("dC", Requires("linux", FALSE, FALSE, FALSE), << <<"sx">>, <<"fl">> >>),
       Plugin("dD", NoRequirement, << <<"fl">> >>) >>

\* No error.
NoErr == [kind |-> "none"]

\* err != nil.
IsErr(err) == err.kind # "none"

\* The error of a lookup of an unknown plugin name.
UnknownName(name) == [kind |-> "unknown", name |-> name]

\* The plugins of list with the given name.
Named(list, name) ==
    LET IsNamed(p) == p.Name = name
    IN  SelectSeq(list, IsNamed)

\* The outcome of a lookup by names.
Found(plugins, err) == [plugins |-> plugins, err |-> err]

\* A lookup step: the plugins found for the first name, then the rest.
FromNamesNext(first, name, rest) ==
    IF Len(first) = 0 THEN Found(<<>>, UnknownName(name))
    ELSE IF IsErr(rest.err) THEN Found(<<>>, rest.err)
    ELSE Found(first \o rest.plugins, NoErr)

RECURSIVE FromNames(_, _)
\* ExtractorsFromNames / DetectorsFromNames: the plugins with the given names, in
\* the order of the names; an unknown name is an error.
FromNames(list, names) ==
    IF Len(names) = 0 THEN Found(<<>>, NoErr)
    ELSE FromNamesNext(Named(list, Head(names)), Head(names),
                       FromNames(list, Tail(names)))

\* What extractorsToRun returns.
Extractors(fs, standalone, err) == [fs |-> fs, standalone |-> standalone, err |-> err]

\* One iteration of extractorsToRun's loop: a name known to neither list fails the
\* call, otherwise what each list knows is appended to its result.
ExtractorsNext(ex, stex, rest) ==
    IF IsErr(ex.err) /\ IsErr(stex.err) THEN Extractors(<<>>, <<>>, ex.err)
    ELSE IF IsErr(rest.err) THEN rest
    ELSE Extractors(ex.plugins \o rest.fs, stex.plugins \o rest.standalone, NoErr)

RECURSIVE ExtractorsLoop(_)
\* extractorsToRun's loop over the names.
ExtractorsLoop(names) ==
    IF Len(names) = 0 THEN Extractors(<<>>, <<>>, NoErr)
    ELSE ExtractorsNext(FromNames(FilesystemExtractorList, <<Head(names)>>),
                        FromNames(StandaloneExtractorList, <<Head(names)>>),
                        ExtractorsLoop(Tail(names)))

\* Flags.extractorsToRun: the filesystem and standalone extractors named by
\* --extractors.
extractorsToRun(f) ==
    IF Len(f.ExtractorsToRun) = 0 THEN Extractors(<<>>, <<>>, NoErr)
    ELSE ExtractorsLoop(SplitList(f.ExtractorsToRun))

\* Flags.detectorsToRun: the detectors named by --detectors.
detectorsToRun(f) ==
    IF Len(f.DetectorsToRun) = 0 THEN Found(<<>>, NoErr)
    ELSE FromNames(DetectorList, SplitList(f.DetectorsToRun))

\* validateListArg: no item of a comma-separated list is empty.
validateListArg(arg) ==
    IF Len(arg) = 0 THEN NoErr
    ELSE IF \E i \in 1..Len(SplitList(arg)) : SplitList(arg)[i] = <<>>
         THEN [kind |-> "emptyitem"]
    ELSE NoErr

\* "Extractor %s must be turned on for Detector %s to run".
MissingExtractor(req, det) ==
    [kind |-> "missing", extractor |-> req, detector |-> det]

\* Variant of ExtractorNameSet: the standalone extractors are left out of exMap.
ExtractorNameSet_FsOnly(ex) ==
    {ex.fs[i].Name : i \in 1..Len(ex.fs)}

\* The names of the extractors of both kinds (exMap).
ExtractorNameSet(ex) ==
    {ex.fs[i].Name : i \in 1..Len(ex.fs)}
        \cup {ex.standalone[i].Name : i \in 1..Len(ex.standalone)}

RECURSIVE FirstMissingOf(_, _, _)
\* The first requirement of detector det, from requirement i on, that is not in
\* exMap, as an error; NoErr when there is none.
FirstMissingOf(det, i, exMap) ==
    IF i > Len(det.RequiredExtractors) THEN NoErr
    ELSE IF det.RequiredExtractors[i] \notin exMap
         THEN MissingExtractor(det.RequiredExtractors[i], det.Name)
    ELSE FirstMissingOf(det, i + 1, exMap)

RECURSIVE FirstMissing(_, _)
\* The loops of validateDetectorDependency: detectors in order, their requirements
\* in order, the first missing one is the error.
FirstMissing(dets, exMap) ==
    IF Len(dets) = 0 THEN NoErr
    ELSE IF IsErr(FirstMissingOf(Head(dets), 1, exMap))
         THEN FirstMissingOf(Head(dets), 1, exMap)
    ELSE FirstMissing(Tail(dets), exMap)

\* validateDetectorDependency once both lists have been looked up.
DependencyOf(ex, det, requireExtractors) ==
    IF IsErr(ex.err) THEN ex.err
    ELSE IF IsErr(det.err) THEN det.err
    ELSE IF requireExtractors THEN FirstMissing(det.plugins, ExtractorNameSet(ex))
    ELSE NoErr

\* validateDetectorDependency(detectors, extractors, requireExtractors).
validateDetectorDependency(detectors, extractors, requireExtractors) ==
    DependencyOf(extractorsToRun([ExtractorsToRun |-> extractors,
                                  DetectorsToRun |-> detectors]),
                 detectorsToRun([ExtractorsToRun |-> extractors,
                                 DetectorsToRun |-> detectors]),
                 requireExtractors)

\* ValidateFlags: the list arguments, then the detector prerequisites (the flags
\* that name no plugin are taken to be valid).
ValidateFlags(flags) ==
    IF IsErr(validateListArg(flags.ExtractorsToRun))
    THEN validateListArg(flags.ExtractorsToRun)
    ELSE IF IsErr(validateListArg(flags.DetectorsToRun))
    THEN validateListArg(flags.DetectorsToRun)
    ELSE validateDetectorDependency(flags.DetectorsToRun, flags.ExtractorsToRun,
                                    flags.ExplicitExtractors)

\* capabilities(): everything is enabled when running as a binary on host os.
capabilities(os) ==
    [OS |-> os, Network |-> TRUE, DirectFS |-> TRUE, RunningSystem |-> TRUE]

\* plugin.ValidateRequirements(p, capab) = nil: the capability gate.
ValidateRequirements(p, capab) ==
    /\ p.Requirements.OS = "any" \/ p.Requirements.OS = capab.OS
    /\ p.Requirements.Network => capab.Network
    /\ p.Requirements.DirectFS => capab.DirectFS
    /\ p.Requirements.RunningSystem => capab.RunningSystem

RECURSIVE FilterLoop(_, _, _)
\* One loop of filterByCapabilities: the plugins that pass are appended to kept.
FilterLoop(plugins, capab, kept) ==
    IF Len(plugins) = 0 THEN kept
    ELSE IF ValidateRequirements(Head(plugins), capab)
         THEN FilterLoop(Tail(plugins), capab, Append(kept, Head(plugins)))
    ELSE FilterLoop(Tail(plugins), capab, kept)

\* Variant of filterByCapabilities: the detectors are returned as given.
filterByCapabilities_DetectorsAsGiven(f, s, d, capab) ==
    [f |-> FilterLoop(f, capab, <<>>),
     s |-> FilterLoop(s, capab, <<>>),
     d |-> d]

\* filterByCapabilities(f, s, d, capab): the three lists, each filtered.
filterByCapabilities(f, s, d, capab) ==
    [f |-> FilterLoop(f, capab, <<>>),
     s |-> FilterLoop(s, capab, <<>>),
     d |-> FilterLoop(d, capab, <<>>)]

\* A scalibr.ScanConfig, or the error GetScanConfig returned.
ScanConfig(f, s, d, capab, err) ==
    [FilesystemExtractors |-> f, StandaloneExtractors |-> s, Detectors |-> d,
     Capabilities |-> capab, err |-> err]

\* GetScanConfig after the capability filter.
ScanConfigOf(lists, capab) == ScanConfig(lists.f, lists.s, lists.d, capab, NoErr)

\* GetScanConfig once both lists have been looked up.
ScanConfigFrom(f, ex, det, capab) ==
    IF IsErr(ex.err) THEN ScanConfig(<<>>, <<>>, <<>>, capab, ex.err)
    ELSE IF IsErr(det.err) THEN ScanConfig(<<>>, <<>>, <<>>, capab, det.err)
    ELSE IF f.FilterByCapabilities
         THEN ScanConfigOf(filterByCapabilities(ex.fs, ex.standalone, det.plugins,
                                                capab), capab)
    ELSE ScanConfig(ex.fs, ex.standalone, det.plugins, capab, NoErr)

\* Flags.GetScanConfig on host os.
GetScanConfig(f, os) ==
    ScanConfigFrom(f, extractorsToRun(f), detectorsToRun(f), capabilities(os))

\* The flag values tried.
ExtractorsToRunChoices ==
    { <<>>, <<"fx">>, <<"fx", ",", "fn">>, <<"fn", ",", "sx">>, <<"bx", ",", "fl">>,
      <<"fx", ",", "fn", ",", "bx">>,
      <<"sx", ",", "fl", ",", "sr">>, <<"zz">>, <<"fx", ",">> }

DetectorsToRunChoices ==
    { <<>>, <<"dA">>, <<"dB", ",", "dA">>, <<"dC">>, <<"dC", ",", "dB">>, <<"dD">>,
      <<"zz">> }

\* The Flags of a command line.
Flags(extractors, detectors, explicit, filter) ==
    [ExtractorsToRun |-> extractors, DetectorsToRun |-> detectors,
     ExplicitExtractors |-> explicit, FilterByCapabilities |-> filter]

FlagChoices ==
    { Flags(e, d, x, f) : e \in ExtractorsToRunChoices, d \in DetectorsToRunChoices,
                          x \in BOOLEAN, f \in BOOLEAN }

\* The host capabilities tried for the capability gate.
CapabilityChoices ==
    { [OS |-> os, Network |-> n, DirectFS |-> TRUE, RunningSystem |-> r] :
        os \in {"linux", "mac"}, n \in BOOLEAN, r \in BOOLEAN }

\* A call not made yet.
NotCalled == [called |-> FALSE]

\* A call that returned value.
Called(value) == [called |-> TRUE, value |-> value]

\* No command line is being processed.
CliIdle ==
    [flags |-> Flags(<<>>, <<>>, FALSE, FALSE), capab |-> capabilities("linux"),
     validated |-> NotCalled, scanConfig |-> NotCalled, filtered |-> NotCalled,
     active |-> FALSE]

\* A command line with its flags, on a host with capabilities capab.
CliStart(flags, capab) ==
    [flags |-> flags, capab |-> capab, validated |-> NotCalled,
     scanConfig |-> NotCalled, filtered |-> NotCalled, active |-> TRUE]

\* ------------------------------------------------------------------------
\* The state machine
\* ------------------------------------------------------------------------

VARIABLES
    pc,         \* where the run is: "start", "walk", "dispatch", "done", "panic"
    config,     \* the Config passed to Run
    cancelled,  \* the scan context has been cancelled
    wc,         \* the walkContext
    scanRoots,  \* Run: the absolute scan roots
    rootIdx,    \* Run: the root being walked
    acc,        \* Run: the inventory and status accumulated over the roots
    todo,       \* the walker: the entries still to be handed to handleFile
    cur,        \* handleFile: the entry in the extractor loop
    exIdx,      \* handleFile: the next extractor of the loop
    runfs,      \* what each RunFS call has returned, in call order
    ret,        \* what Run has returned (pc = "done")
    visits,     \* history: the handleFile invocations of the run
    cli,        \* the command line being processed, and what its calls returned
    statusDue,  \* the clock: the handleFile call at which a status line is due
    trace       \* history: the calls made on the plugins and the opened files

vars == <<pc, config, cancelled, wc, scanRoots, rootIdx, acc, todo, cur, exIdx,
          runfs, ret, visits, trace, cli, statusDue>>

\* The run's state as one value, for the step operators.
State ==
    [pc |-> pc, config |-> config, wc |-> wc, scanRoots |-> scanRoots,
     rootIdx |-> rootIdx, acc |-> acc, todo |-> todo, cur |-> cur, exIdx |-> exIdx,
     runfs |-> runfs, ret |-> ret, visits |-> visits, trace |-> trace]

\* The state in which Run is called with cfg.
StartState(cfg) ==
    [pc |-> "start", config |-> cfg, wc |-> ZeroWalkContext, scanRoots |-> <<>>,
     rootIdx |-> 0, acc |-> Returned(<<>>, <<>>, None), todo |-> <<>>,
     cur |-> [path |-> <<>>, fileinfo |-> None], exIdx |-> 0, runfs |-> <<>>,
     ret |-> Returned(<<>>, <<>>, None), visits |-> <<>>, trace |-> <<>>]

\* Two seconds have passed since the last status line when the next entry is
\* handed to handleFile: time.Since(wc.lastStatus) >= 2*time.Second.
StatusIsDue == wc.inodesVisited + 1 = statusDue

Becomes(s) ==
    /\ pc' = s.pc
    /\ config' = s.config
    /\ wc' = s.wc
    /\ scanRoots' = s.scanRoots
    /\ rootIdx' = s.rootIdx
    /\ acc' = s.acc
    /\ todo' = s.todo
    /\ cur' = s.cur
    /\ exIdx' = s.exIdx
    /\ runfs' = s.runfs
    /\ ret' = s.ret
    /\ visits' = s.visits
    /\ trace' = s.trace

Init ==
    /\ config \in Configs
    /\ pc = "start"
    /\ cancelled = FALSE
    /\ wc = ZeroWalkContext
    /\ scanRoots = <<>>
    /\ rootIdx = 0
    /\ acc = Returned(<<>>, <<>>, None)
    /\ todo = <<>>
    /\ cur = [path |-> <<>>, fileinfo |-> None]
    /\ exIdx = 0
    /\ runfs = <<>>
    /\ ret = Returned(<<>>, <<>>, None)
    /\ visits = <<>>
    /\ trace = <<>>
    /\ cli = CliIdle
    /\ statusDue \in StatusDueChoices

\* Run is called.
DoRunStart ==
    /\ pc = "start"
    /\ Becomes(RunStart(State))
    /\ UNCHANGED <<cancelled, cli, statusDue>>

\* The walker hands one entry to handleFile.
DoWalkStep ==
    /\ pc = "walk"
    /\ todo # <<>>
    /\ Becomes(WalkStep(State, cancelled, StatusIsDue))
    /\ UNCHANGED <<cancelled, cli, statusDue>>

\* handleFile runs the next extractor on the current entry.
DoDispatchStep ==
    /\ pc = "dispatch"
    /\ Becomes(DispatchStep(State, cancelled))
    /\ UNCHANGED <<cancelled, cli, statusDue>>

\* The walk of the current root ends; Run goes on with the next root or returns.
DoWalkEnd ==
    /\ pc = "walk"
    /\ todo = <<>>
    /\ Becomes(WalkEnd(State))
    /\ UNCHANGED <<cancelled, cli, statusDue>>

\* The caller cancels the scan context, at any moment of the run.
Cancel ==
    /\ pc \in {"start", "walk", "dispatch"}
    /\ ~cancelled
    /\ cancelled' = TRUE
    /\ UNCHANGED <<pc, config, wc, scanRoots, rootIdx, acc, todo, cur, exIdx,
                   runfs, ret, visits, trace, cli, statusDue>>

Next ==
    \/ DoRunStart
    \/ DoWalkStep
    \/ DoDispatchStep
    \/ DoWalkEnd
    \/ Cancel

Spec == Init /\ [][Next]_vars

\* The variables of the scan engine.
engineVars ==
    <<pc, config, cancelled, wc, scanRoots, rootIdx, acc, todo, cur, exIdx,
      runfs, ret, visits, trace, statusDue>>

\* A command line is given, on some host; no scan is running.
CliInit ==
    /\ cli \in {CliStart(f, c) : f \in FlagChoices, c \in CapabilityChoices}
    /\ config = Config(<<>>, <<>>, <<>>, <<>>, NilRegexp, None, FALSE, 0, FALSE)
    /\ pc = "start"
    /\ cancelled = FALSE
    /\ wc = ZeroWalkContext
    /\ scanRoots = <<>>
    /\ rootIdx = 0
    /\ acc = Returned(<<>>, <<>>, None)
    /\ todo = <<>>
    /\ cur = [path |-> <<>>, fileinfo |-> None]
    /\ exIdx = 0
    /\ runfs = <<>>
    /\ ret = Returned(<<>>, <<>>, None)
    /\ visits = <<>>
    /\ trace = <<>>
    /\ statusDue = 0

\* ValidateFlags is called on the flags.
DoValidateFlags ==
    /\ cli.active
    /\ ~cli.validated.called
    /\ cli' = [cli EXCEPT !.validated = Called(ValidateFlags(cli.flags))]
    /\ UNCHANGED engineVars

\* GetScanConfig is called on the flags (whether or not they were validated).
DoGetScanConfig ==
    /\ cli.active
    /\ ~cli.scanConfig.called
    /\ cli' = [cli EXCEPT !.scanConfig = Called(GetScanConfig(cli.flags, cli.capab.OS))]
    /\ UNCHANGED engineVars

\* filterByCapabilities is applied to the plugins the flags name, for the host's
\* capabilities.
DoFilterByCapabilities ==
    /\ cli.active
    /\ ~cli.filtered.called
    /\ ~IsErr(extractorsToRun(cli.flags).err)
    /\ ~IsErr(detectorsToRun(cli.flags).err)
    /\ cli' = [cli EXCEPT !.filtered =
                  Called(filterByCapabilities(extractorsToRun(cli.flags).fs,
                                              extractorsToRun(cli.flags).standalone,
                                              detectorsToRun(cli.flags).plugins,
                                              cli.capab))]
    /\ UNCHANGED engineVars

CliNext ==
    \/ DoValidateFlags
    \/ DoGetScanConfig
    \/ DoFilterByCapabilities

CliSpec == CliInit /\ [][CliNext]_vars

\* ------------------------------------------------------------------------
\* Reference run and history queries
\* ------------------------------------------------------------------------

RECURSIVE RunToEnd(_)
\* Run executed from state s to its return (or panic) with a context that is
\* never cancelled.
RunToEnd(s) ==
    IF s.pc = "start" THEN RunToEnd(RunStart(s))
    ELSE IF s.pc = "dispatch" THEN RunToEnd(DispatchStep(s, FALSE))
    ELSE IF s.pc = "walk"
         THEN IF s.todo = <<>> THEN RunToEnd(WalkEnd(s))
              ELSE RunToEnd(WalkStep(s, FALSE, FALSE))
    ELSE s

\* The run of the same configuration on the same filesystem, never cancelled.
UncancelledRun == RunToEnd(StartState([config EXCEPT !.FS = None]))

IsPrefix(a, b) == Len(a) <= Len(b) /\ SubSeq(b, 1, Len(a)) = a

\* The calls that can fail a plugin on a file.
FailingOps == {"Open", "Stat", "Extract"}

\* Up to the end of walk k, some Extract call of ex returned inventory.
FoundBy(ex, k) ==
    \E i \in 1..Len(trace) :
        /\ trace[i].walk <= k
        /\ trace[i].ex = ex
        /\ trace[i].op = "Extract"
        /\ Len(trace[i].results) > 0

\* Up to the end of walk k, some Open, Stat or Extract call made for ex failed.
FailedBy(ex, k) ==
    \E i \in 1..Len(trace) :
        /\ trace[i].walk <= k
        /\ trace[i].ex = ex
        /\ trace[i].op \in FailingOps
        /\ ~trace[i].ok

\* The status table of the specification.
StatusTable(found, failed) ==
    IF failed THEN (IF found THEN "PartiallyFailed" ELSE "Failed")
    ELSE (IF found THEN "Succeeded" ELSE "NoResults")

\* The status st is the one the table gives extractor ex at the end of walk k.
StatusAgrees(st, ex, k) ==
    /\ st.Name = ex
    /\ st.Status = StatusTable(FoundBy(ex, k), FailedBy(ex, k))
    /\ (st.FailureReason # <<>>) = FailedBy(ex, k)

\* The failed calls made for ex, in the order they were made.
FailuresOf(ex) ==
    LET Failed(c) == c.ex = ex /\ c.op \in FailingOps /\ ~c.ok
    IN  SelectSeq(trace, Failed)

\* The operation as the error text names it.
ErrOp(op) == IF op = "Stat" THEN "stat" ELSE op

\* The chained error chain holds exactly the failures, in order, each with its path.
ChainedAs(chain, failures) ==
    /\ Len(chain) = Len(failures)
    /\ \A j \in 1..Len(failures) :
          /\ chain[j].path = failures[j].path
          /\ chain[j].op = ErrOp(failures[j].op)

\* The host path abs lies inside directory dir.
UnderDir(abs, dir) == HasPrefix(abs, dir \o <<Slash>>)

\* No scan root of the configuration is the directory dir or lies inside it.
NoRootInside(dir) ==
    \A r \in 1..Len(config.ScanRoots) :
        /\ Abs(config.ScanRoots[r]) # dir
        /\ ~UnderDir(Abs(config.ScanRoots[r]), dir)

\* The next entry fails for an I/O reason: the walker reports an error for it, or
\* it passes the type filter and the handler's own stat of it fails.
EntryFailsIO(w, obs) ==
    \/ obs.fserr # None
    \/ /\ obs.d # "dir"
       /\ ~IgnoredType(w, obs.d)
       /\ Stat(w.fs, obs.path).err # None

\* The next step hands an entry to handleFile which neither the budget, nor a nil
\* metrics hook, nor a cancelled context stops first.
HandlerReachesEntry ==
    /\ pc = "walk"
    /\ todo # <<>>
    /\ Len(visits') = Len(visits) + 1
    /\ ~cancelled
    /\ wc.stats # None
    /\ ~(wc.maxInodes > 0 /\ wc.inodesVisited >= wc.maxInodes)

\* The inventory out of walk k is a prefix of what walk k of the run u returned.
PrefixOfRun(out, k, u) ==
    /\ Len(u.runfs) >= k
    /\ IsPrefix(out.inventory, u.runfs[k].inventory)

\* The inventory out of walk k is shorter than what walk k of the run u returned.
ShorterThanRun(out, k, u) ==
    /\ Len(u.runfs) >= k
    /\ Len(out.inventory) < Len(u.runfs[k].inventory)

\* ------------------------------------------------------------------------
\* Properties
\* ------------------------------------------------------------------------

\* C1: at the end of every walk, RunFS returns one status per configured extractor,
\* in configuration order, and the status of extractor P is the one the table
\* gives: Succeeded / PartiallyFailed / NoResults / Failed according to whether
\* some Extract call of P returned a non-empty list and whether some Open, Stat
\* or Extract call made for P failed.
C1_StatusTable ==
    \A k \in 1..Len(runfs) :
        /\ Len(runfs[k].status) = Len(config.Extractors)
        /\ \A i \in 1..Len(config.Extractors) :
              StatusAgrees(runfs[k].status[i], config.Extractors[i], k)

\* A walk has ended with one extractor partially failed and the other failed.
C1_Witness ==
    \E k \in 1..Len(runfs) :
        /\ Len(runfs[k].status) = 2
        /\ runfs[k].status[1].Status = "PartiallyFailed"
        /\ runfs[k].status[2].Status = "Failed"
        /\ FoundBy(config.Extractors[1], k)
        /\ ~FoundBy(config.Extractors[2], k)

\* C2: a Run with a non-empty extractor list that returns without error returns a
\* status for every configured extractor, whatever the number of scan roots.
C2_StatusForEveryExtractor ==
    (pc = "done" /\ ret.err = None /\ Len(config.Extractors) > 0) =>
        \A i \in 1..Len(config.Extractors) :
            \E j \in 1..Len(ret.status) : ret.status[j].Name = config.Extractors[i]

\* C3: with an inode budget N > 0 no plugin or file call is made for an entry after
\* the N-th; the handler invocation for entry N+1 ends the run with the budget
\* error, the counter standing at N+1; and the budget error is returned only then.
C3_InodeBudget ==
    config.MaxInodes > 0 =>
        /\ \A i \in 1..Len(trace) : trace[i].entry <= config.MaxInodes
        /\ Len(visits) > config.MaxInodes =>
              /\ pc = "done"
              /\ ret.err = ErrMaxInodes
              /\ wc.inodesVisited = config.MaxInodes + 1
        /\ (pc = "done" /\ ret.err = ErrMaxInodes) =>
              /\ Len(visits) = config.MaxInodes + 1
              /\ visits[Len(visits)].ret = ErrMaxInodes
              /\ ~visits[Len(visits)].dispatch

\* A run was stopped by the budget after extracting from an earlier entry.
C3_Witness ==
    /\ pc = "done"
    /\ ret.err = ErrMaxInodes
    /\ Len(visits) = config.MaxInodes + 1
    /\ \E i \in 1..Len(trace) : trace[i].op = "Extract"

\* C4: the inode counter is never reset between scan roots: it counts the handler
\* invocations of the whole run, so with budget N > 0 a run makes at most N+1 of
\* them over all its roots, and a run that returns without error at most N.
C4_BudgetAcrossRoots ==
    /\ wc.inodesVisited = Len(visits)
    /\ config.MaxInodes > 0 =>
          /\ Len(visits) <= config.MaxInodes + 1
          /\ (pc = "done" /\ ret.err = None) => Len(visits) <= config.MaxInodes

\* The budget ran out in the second root, after entries of the first were counted.
C4_Witness ==
    /\ pc = "done"
    /\ ret.err = ErrMaxInodes
    /\ Len(runfs) = 2
    /\ visits[1].walk = 1
    /\ visits[Len(visits)].walk = 2
    /\ Len(visits) = config.MaxInodes + 1

\* C5: when Run ends with the cancellation or the budget error, what it returns
\* holds the inventory collected before the stop.
C5_PartialInventoryReturned ==
    (pc = "done" /\ ret.err \in {ErrCanceled, ErrMaxInodes}) =>
        \A i \in 1..Len(wc.inventory) :
            \E j \in 1..Len(ret.inventory) : ret.inventory[j] = wc.inventory[i]

\* C6: the inventory a cancelled walk returns is a prefix of the inventory the same
\* walk returns when the run is never cancelled.
C6_CancelledIsPrefix ==
    \A k \in 1..Len(runfs) :
        runfs[k].err = ErrCanceled => PrefixOfRun(runfs[k], k, UncancelledRun)

\* A walk was cancelled after it had collected some, but not all, of its inventory.
C6_Witness ==
    \E k \in 1..Len(runfs) :
        /\ runfs[k].err = ErrCanceled
        /\ Len(runfs[k].inventory) > 0
        /\ ShorterThanRun(runfs[k], k, UncancelledRun)

\* C7: once the scan context is cancelled, no Extract call is started any more.
C7_NoExtractAfterCancel ==
    \A i \in 1..Len(trace) : trace[i].op = "Extract" => ~trace[i].canceled

\* C8: in a walk of the tree, no file inside a directory d listed in dirs_to_skip
\* is ever passed to FileRequired or Extract (no scan root being d itself or
\* lying inside d).
C8_SkippedSubtreeOmitted ==
    config.FilesToExtract = <<>> =>
        \A k \in 1..Len(config.DirsToSkip) :
            NoRootInside(Abs(config.DirsToSkip[k])) =>
                \A i \in 1..Len(trace) :
                    ~UnderDir(HostPath(trace[i].root, trace[i].path),
                              Abs(config.DirsToSkip[k]))

\* The walk context apart from its inode counter and its status-line data.
Collected(w) ==
    [w EXCEPT !.inodesVisited = 0, !.lastStatus = 0, !.lastInodes = 0,
              !.lastExtracts = 0]

\* C9: an entry that fails for an I/O reason (an error reported by the walker, or a
\* failing stat in the handler) is dropped: the handler step only counts it, the
\* walk returns nothing and goes on with the entries that were pending.
C9_IOErrorDropsEntry ==
    [][ (HandlerReachesEntry /\ EntryFailsIO(wc, Head(todo))) =>
            /\ pc' = "walk"
            /\ todo' = Tail(todo)
            /\ runfs' = runfs
            /\ ret' = ret
            /\ trace' = trace
            /\ wc'.inodesVisited = wc.inodesVisited + 1
            /\ Collected(wc') = Collected(wc) ]_vars

\* A run returned without error, with inventory extracted after an entry that the
\* walker reported with an error.
C9_Witness ==
    /\ pc = "done"
    /\ ret.err = None
    /\ Len(ret.inventory) > 0
    /\ \E i \in 1..Len(visits) :
          /\ visits[i].fserr # None
          /\ visits[i].ret = None
          /\ \E j \in 1..Len(trace) :
                /\ trace[j].entry > i
                /\ trace[j].walk = visits[i].walk
                /\ Len(trace[j].results) > 0

\* C10: the error kept for a plugin is the chain of every failure of that plugin,
\* in the order they happened and each naming its file; failures of one plugin
\* leave the other plugins' errors alone.
C10_ErrorsChained ==
    \A ex \in ExtractorNames :
        ChainedAs(MapGet(wc.errors, ex, <<>>), FailuresOf(ex))

\* One plugin has failed on two files and the other plugin has failed too.
C10_Witness ==
    /\ Len(MapGet(wc.errors, "e2", <<>>)) >= 2
    /\ MapGet(wc.errors, "e2", <<>>)[1].path # MapGet(wc.errors, "e2", <<>>)[2].path
    /\ Len(MapGet(wc.errors, "e1", <<>>)) >= 1

\* The locations of an item as the result holds them: joined to the root the file
\* was walked under when absolute paths are stored, as the plugin returned them
\* otherwise.
StoredLocations(locations, root) ==
    IF config.StoreAbsolutePath
    THEN [n \in 1..Len(locations) |-> FilepathJoin(root, locations[n])]
    ELSE locations

\* The item r returned by call c, as the result holds it.
StoredItem(c, r) ==
    [Name |-> r.Name, Version |-> r.Version,
     Locations |-> StoredLocations(r.Locations, c.root), Extractor |-> c.ex]

\* The items returned by call c, as the result holds them.
StoredItems(c) == [n \in 1..Len(c.results) |-> StoredItem(c, c.results[n])]

\* The call c is an Extract call that returned both inventory and an error.
ReturnedBoth(c) == c.op = "Extract" /\ ~c.ok /\ Len(c.results) > 0

\* Every walk that has ended since call c was made reports c's plugin as partially
\* failed.
PartiallyFailedSince(c) ==
    \A k \in c.walk..Len(runfs) :
        \E n \in 1..Len(runfs[k].status) :
            /\ runfs[k].status[n].Name = c.ex
            /\ runfs[k].status[n].Status = "PartiallyFailed"

\* What an Extract call returned with an error is kept: the error is in the
\* plugin's chain, the items are in the inventory, the plugin has found inventory.
KeptWithError(c) ==
    /\ MapGet(wc.foundInv, c.ex, FALSE)
    /\ \E n \in 1..Len(MapGet(wc.errors, c.ex, <<>>)) :
          /\ wc.errors[c.ex][n].op = "Extract"
          /\ wc.errors[c.ex][n].path = c.path
    /\ \A n \in 1..Len(c.results) :
          \E m \in 1..Len(wc.inventory) : wc.inventory[m] = StoredItem(c, c.results[n])
    /\ PartiallyFailedSince(c)

\* C11: when an Extract call returns a non-empty list together with an error, the
\* error is recorded under the plugin, the items are appended to the inventory,
\* the plugin is marked as having found inventory, and its status at the end of
\* the walk is PartiallyFailed.
C11_PartialInventoryKept ==
    \A i \in 1..Len(trace) : ReturnedBoth(trace[i]) => KeptWithError(trace[i])

\* A run has returned without error after an Extract call returned both, and the
\* walk's status for that plugin is PartiallyFailed.
C11_Witness ==
    /\ pc = "done"
    /\ ret.err = None
    /\ \E i \in 1..Len(trace) :
          /\ ReturnedBoth(trace[i])
          /\ Len(runfs) >= trace[i].walk
          /\ PartiallyFailedSince(trace[i])

RECURSIVE ItemsOfCalls(_)
\* The items the calls returned, in call order, as the result holds them.
ItemsOfCalls(calls) ==
    IF Len(calls) = 0 THEN <<>>
    ELSE StoredItems(Head(calls)) \o ItemsOfCalls(Tail(calls))

\* C12: the inventory Run returns lists the items produced by the Extract calls of
\* the run in exactly the order the calls were made (root order, walk order
\* within the root, extractor order for each entry).
C12_InventoryInCallOrder ==
    (pc = "done" /\ ret.err = None) => ret.inventory = ItemsOfCalls(trace)

\* A relative path that leaves its base: ".." or "../...".
Escapes(rel) ==
    /\ Len(rel) >= 2
    /\ SubSeq(rel, 1, 2) = DotDot
    /\ (Len(rel) = 2 \/ rel[3] = Slash)

\* No scan root is a prefix of the user's path p.
Unmatched(p) ==
    \A r \in 1..Len(config.ScanRoots) : ~HasPrefix(Abs(p), Abs(config.ScanRoots[r]))

\* Some files_to_extract or dirs_to_skip entry has no scan root as a prefix.
SomeUnmatched ==
    \/ \E i \in 1..Len(config.FilesToExtract) : Unmatched(config.FilesToExtract[i])
    \/ \E i \in 1..Len(config.DirsToSkip) : Unmatched(config.DirsToSkip[i])

\* C13: resolution of the files_to_extract and dirs_to_skip paths fails with
\* ErrNotRelativeToScanRoots exactly when some path has no scan root as a prefix,
\* and every path it resolves lies inside the root it was resolved against: the
\* relative form never starts with "..".
C13_ResolvedWithinRoot ==
    (pc # "start" /\ Len(config.Extractors) > 0) =>
        /\ SomeUnmatched <=> (pc = "done" /\ ret.err = ErrNotRelativeToScanRoots)
        /\ \A i \in 1..Len(wc.filesToExtract) : ~Escapes(wc.filesToExtract[i])
        /\ \A d \in wc.dirsToSkip : ~Escapes(d)

\* The user's path p is the directory root or lies inside it.
UnderRoot(p, root) ==
    \/ root = <<Slash>>
    \/ Abs(p) = root
    \/ UnderDir(Abs(p), root)

\* The user's path p is under none of the scan roots.
OutsideRoots(p) ==
    \A r \in 1..Len(config.ScanRoots) : ~UnderRoot(p, Abs(config.ScanRoots[r]))

\* Some files_to_extract or dirs_to_skip entry is under none of the scan roots.
SomeOutsideRoots ==
    \/ \E i \in 1..Len(config.FilesToExtract) : OutsideRoots(config.FilesToExtract[i])
    \/ \E i \in 1..Len(config.DirsToSkip) : OutsideRoots(config.DirsToSkip[i])

\* C14: when some files_to_extract or dirs_to_skip entry is under none of the scan
\* roots, Run (with extractors configured) fails with ErrNotRelativeToScanRoots
\* before any entry is visited and before any plugin is called.
C14_OutsideRootsRejected ==
    (pc # "start" /\ Len(config.Extractors) > 0 /\ SomeOutsideRoots) =>
        /\ pc = "done"
        /\ ret.err = ErrNotRelativeToScanRoots
        /\ visits = <<>>
        /\ trace = <<>>

\* The host path abs is one of the files the user listed in files_to_extract.
ListedFile(abs) ==
    \E i \in 1..Len(config.FilesToExtract) : Abs(config.FilesToExtract[i]) = abs

\* C15: with files_to_extract set, the only files passed to FileRequired or
\* Extract, over all roots of the run, are the files the user listed.
C15_OnlyListedFilesOffered ==
    config.FilesToExtract # <<>> =>
        \A i \in 1..Len(trace) : ListedFile(HostPath(trace[i].root, trace[i].path))

\* The item is what some Extract call returned, stamped and rewritten once.
FromCall(item) ==
    \E i \in 1..Len(trace) :
        \E n \in 1..Len(trace[i].results) :
            item = StoredItem(trace[i], trace[i].results[n])

\* The locations have the configured form: absolute paths of files of the host
\* when absolute paths are stored, paths relative to the scan root otherwise.
LocationsAsConfigured(locations) ==
    \A n \in 1..Len(locations) :
        IF config.StoreAbsolutePath
        THEN IsRooted(locations[n]) /\ Exists(locations[n])
        ELSE ~IsRooted(locations[n])

\* C16: with store_absolute_path set, every location of every item collected or
\* returned is join(scan root the file was walked under, location the plugin
\* returned), applied once; with it unset the locations are as the plugin
\* returned them.
C16_LocationsRewrittenOnce ==
    \A m \in 1..Len(wc.inventory \o ret.inventory) :
        /\ FromCall((wc.inventory \o ret.inventory)[m])
        /\ LocationsAsConfigured((wc.inventory \o ret.inventory)[m].Locations)

\* With absolute paths stored, a run over two roots has returned an item located
\* under its second root.
C16_Witness ==
    /\ pc = "done"
    /\ config.StoreAbsolutePath
    /\ Len(runfs) = 2
    /\ \E m \in 1..Len(ret.inventory) : ret.inventory[m].Locations = <<pAB_B_F>>

\* C19: a run whose metrics hook (Config.Stats) is nil does not crash.
C19_NilStatsDoesNotCrash ==
    config.Stats = None => pc # "panic"

\* C20: in both walk modes a walk returns success, the inode-budget error or the
\* cancellation error, and nothing else: neither an entry's I/O error nor the
\* skip-subtree sentinel is ever the walk's error.
C20_WalkReturnsOnlyFatalErrors ==
    \A k \in 1..Len(runfs) : runfs[k].err \in {None, ErrMaxInodes, ErrCanceled}

\* ---------------------------------------------------------------------------
\* The command line: capability filter and detector prerequisites
\* ---------------------------------------------------------------------------

\* The plugins of list that pass the capability gate on host capab, in the order
\* of list.
Passing(list, capab) ==
    LET Passes(p) == ValidateRequirements(p, capab)
    IN  SelectSeq(list, Passes)

\* out is the three given lists, each reduced to its passing plugins.
KeepsThePassing(out, f, s, d, capab) ==
    /\ out.f = Passing(f, capab)
    /\ out.s = Passing(s, capab)
    /\ out.d = Passing(d, capab)

\* Filtering out again with the same capabilities changes nothing.
FilteredAgain(out, capab) ==
    filterByCapabilities(out.f, out.s, out.d, capab) = out

\* C17: filterByCapabilities returns, for each of the three lists, exactly the
\* plugins that pass ValidateRequirements for the host capabilities, in their
\* original relative order, and filtering its result again with the same
\* capabilities returns the same three lists.
C17_FilterKeepsThePassingInOrder ==
    cli.filtered.called =>
        /\ KeepsThePassing(cli.filtered.value, extractorsToRun(cli.flags).fs,
                           extractorsToRun(cli.flags).standalone,
                           detectorsToRun(cli.flags).plugins, cli.capab)
        /\ FilteredAgain(cli.filtered.value, cli.capab)

\* A filter that dropped a filesystem extractor from between two it kept, and
\* dropped a detector while keeping another.
C17_Witness ==
    /\ cli.filtered.called
    /\ Len(extractorsToRun(cli.flags).fs) = 3
    /\ Len(cli.filtered.value.f) = 2
    /\ cli.filtered.value.f[1] = extractorsToRun(cli.flags).fs[1]
    /\ cli.filtered.value.f[2] = extractorsToRun(cli.flags).fs[3]
    /\ Len(detectorsToRun(cli.flags).plugins) = 2
    /\ Len(cli.filtered.value.d) = 1

\* The items of a comma-separated flag, as a set.
NamesIn(arg) ==
    IF Len(arg) = 0 THEN {}
    ELSE {SplitList(arg)[i] : i \in 1..Len(SplitList(arg))}

\* Both list flags are well formed and name known plugins only.
Resolves(flags) ==
    /\ ~IsErr(validateListArg(flags.ExtractorsToRun))
    /\ ~IsErr(validateListArg(flags.DetectorsToRun))
    /\ ~IsErr(extractorsToRun(flags).err)
    /\ ~IsErr(detectorsToRun(flags).err)

\* Requirement i of detector det is not among the configured extractors.
Absent(flags, det, i) ==
    /\ i \in 1..Len(det.RequiredExtractors)
    /\ det.RequiredExtractors[i] \notin NamesIn(flags.ExtractorsToRun)

\* Detector det requires an extractor that is not configured.
Lacking(flags, det) ==
    \E i \in 1..Len(det.RequiredExtractors) : Absent(flags, det, i)

\* err is the missing-extractor error for some configured detector D and some
\* extractor E that D requires and that is not configured.
NamesMissingPair(flags, err) ==
    /\ err.kind = "missing"
    /\ \E k \in 1..Len(detectorsToRun(flags).plugins) :
         \E i \in 1..Len(detectorsToRun(flags).plugins[k].RequiredExtractors) :
            /\ Absent(flags, detectorsToRun(flags).plugins[k], i)
            /\ err = MissingExtractor(
                        detectorsToRun(flags).plugins[k].RequiredExtractors[i],
                        detectorsToRun(flags).plugins[k].Name)

\* err is the missing-extractor error for the first configured detector that
\* lacks an extractor and the first extractor it lacks.
NamesFirstMissingPair(flags, err) ==
    \E k \in 1..Len(detectorsToRun(flags).plugins) :
        \E i \in 1..Len(detectorsToRun(flags).plugins[k].RequiredExtractors) :
            /\ Absent(flags, detectorsToRun(flags).plugins[k], i)
            /\ \A j \in 1..(i - 1) : ~Absent(flags, detectorsToRun(flags).plugins[k], j)
            /\ \A h \in 1..(k - 1) : ~Lacking(flags, detectorsToRun(flags).plugins[h])
            /\ err = MissingExtractor(
                        detectorsToRun(flags).plugins[k].RequiredExtractors[i],
                        detectorsToRun(flags).plugins[k].Name)

\* Some configured detector requires an extractor that is not configured.
SomeLacking(flags) ==
    \E k \in 1..Len(detectorsToRun(flags).plugins) :
        Lacking(flags, detectorsToRun(flags).plugins[k])

\* The configured detectors GetScanConfig is to return: all of them, or those
\* passing the capability gate of the host when the filter is requested.
DetectorsToKeep(flags, os) ==
    IF flags.FilterByCapabilities
    THEN Passing(detectorsToRun(flags).plugins, capabilities(os))
    ELSE detectorsToRun(flags).plugins

\* What the prerequisite statement asks of a GetScanConfig result r.
PrerequisiteEnforcedBy(flags, os, r) ==
    IF flags.ExplicitExtractors
    THEN SomeLacking(flags) => NamesMissingPair(flags, r.err)
    ELSE ~IsErr(r.err) /\ r.Detectors = detectorsToRun(flags).plugins

\* C18 (as stated): for a configured detector D that requires an extractor E
\* absent from the configured filesystem and standalone extractors, GetScanConfig
\* fails with the missing-extractor error naming E and D when explicit_extractors
\* is true, and succeeds with D among the detectors when it is false.
C18_GetScanConfigChecksPrerequisites ==
    (cli.scanConfig.called /\ Resolves(cli.flags) /\ ~cli.flags.FilterByCapabilities)
        => PrerequisiteEnforcedBy(cli.flags, cli.capab.OS, cli.scanConfig.value)

\* What ValidateFlags returns for flags that resolve.
ValidatedAs(flags, err) ==
    IF flags.ExplicitExtractors /\ SomeLacking(flags)
    THEN NamesFirstMissingPair(flags, err)
    ELSE ~IsErr(err)

\* What GetScanConfig returns for flags that resolve.
ConfiguredAs(flags, os, r) ==
    /\ ~IsErr(r.err)
    /\ r.Detectors = DetectorsToKeep(flags, os)

\* C18 (amended): the prerequisite check is made by ValidateFlags, which fails
\* with the missing-extractor error naming the first configured detector D that
\* lacks an extractor and the first extractor E it lacks when explicit_extractors
\* is true, and passes when it is false; GetScanConfig makes no such check: with
\* either value it succeeds and keeps every configured detector (every one that
\* passes the capability gate when filter_by_capabilities is set).
C18_ValidateFlagsChecksPrerequisites ==
    /\ (cli.validated.called /\ Resolves(cli.flags))
          => ValidatedAs(cli.flags, cli.validated.value)
    /\ (cli.scanConfig.called /\ Resolves(cli.flags))
          => ConfiguredAs(cli.flags, cli.capab.OS, cli.scanConfig.value)

\* Explicit extractors are required and the first detector configured has its
\* first requirement met by a standalone extractor and lacks its second:
\* ValidateFlags reported that pair, GetScanConfig returned a configuration with
\* both detectors.
C18_Witness ==
    /\ cli.validated.called
    /\ cli.scanConfig.called
    /\ cli.flags.ExplicitExtractors
    /\ Resolves(cli.flags)
    /\ cli.validated.value = MissingExtractor(<<"fl">>, <<"dC">>)
    /\ ~IsErr(cli.scanConfig.value.err)
    /\ Len(cli.scanConfig.value.Detectors) = 2

\* ---------------------------------------------------------------------------
\* The homebrew extractor
\* ---------------------------------------------------------------------------

\* The part of a path that stands k parts before its last one.
PartFromEnd(path, k) == Split(path)[Len(Split(path)) - k]

\* The path has the form <prefix>/cellar/<pkg>/<ver>/install_receipt.json, read
\* case-insensitively (the prefix may be empty).
CellarReceiptPath(path) ==
    /\ Len(Split(path)) >= 4
    /\ ToLower(PartFromEnd(path, 3)) = <<"c", "e", "l", "l", "a", "r">>
    /\ PartFromEnd(path, 2) # <<>>
    /\ PartFromEnd(path, 1) # <<>>
    /\ ToLower(PartFromEnd(path, 0)) = <<"i", "n", "s", "t", "a", "l", "l", "_", "r", "e", "c", "e", "i", "p", "t", ".", "j", "s", "o", "n">>

\* The single Inventory the statement expects for a receipt path.
ReceiptInventory(path) ==
    [Name |-> PartFromEnd(path, 2), Version |-> PartFromEnd(path, 1),
     Locations |-> <<path>>, Extractor |-> None]

\* What the statement expects of a call c made on the homebrew extractor for a
\* receipt path.
ReceiptCallAsStated(c) ==
    /\ c.op = "FileRequired" => c.ok
    /\ c.op = "Extract" => c.results = <<ReceiptInventory(c.path)>>

\* Run has returned the single Inventory of the one receipt under its one root,
\* with the plugin Succeeded.
ReceiptRunAsStated ==
    /\ ret.err = None
    /\ Len(ret.inventory) = 1
    /\ ret.inventory[1].Name = PartFromEnd(visits[Len(visits)].path, 2)
    /\ ret.inventory[1].Version = PartFromEnd(visits[Len(visits)].path, 1)
    /\ Len(ret.status) = 1
    /\ ret.status[1].Status = "Succeeded"

\* C21: for every path <prefix>/cellar/<pkg>/<ver>/install_receipt.json (in any
\* letter case) the homebrew extractor's FileRequired returns true and Extract
\* returns exactly one Inventory with name <pkg>, version <ver> and the input path
\* as its only location; a Run of the extractor over one root holding only that
\* file (the scan not being cancelled) returns that Inventory and the status
\* Succeeded.
C21_HomebrewReceiptExtracted ==
    /\ \A i \in 1..Len(trace) :
          (trace[i].ex = BrewName /\ CellarReceiptPath(trace[i].path))
              => ReceiptCallAsStated(trace[i])
    /\ (pc = "done" /\ ~cancelled /\ config.Extractors = <<BrewName>>
           /\ Len(config.ScanRoots) = 1)
          => ReceiptRunAsStated

\* ---------------------------------------------------------------------------
\* The extractor dispatch: roots, readers, entry types, bookkeeping
\* ---------------------------------------------------------------------------

\* The absolute path of the k-th scan root of the configuration.
RootOfWalk(k) == Abs(config.ScanRoots[k])

\* The call c was made for a file of the root of its walk: the scan root it was
\* given is that root and its path is a path inside that root, relative to it.
MadeUnderItsRoot(c) ==
    /\ c.root = RootOfWalk(c.walk)
    /\ ValidPath(c.path)
    /\ ~IsRooted(c.path)
    /\ Exists(HostPath(RootOfWalk(c.walk), c.path))
    /\ UnderRoot(HostPath(RootOfWalk(c.walk), c.path), RootOfWalk(c.walk))

\* C22: every Extract call made while root r is walked is given r as its scan
\* root and a path relative to r, and the filesystem handle through which the
\* readers of the entry being dispatched are opened is r's, also when several
\* roots are scanned in one Run.
C22_ExtractCarriesItsRoot ==
    /\ \A i \in 1..Len(trace) : trace[i].op = "Extract" => MadeUnderItsRoot(trace[i])
    /\ pc = "dispatch" =>
          /\ wc.fs = RootOfWalk(rootIdx)
          /\ wc.scanRoot = RootOfWalk(rootIdx)

\* Extract has been called under the first and under the second root of a run,
\* the roots being different directories.
C22_Witness ==
    /\ Len(config.ScanRoots) = 2
    /\ \E i \in 1..Len(trace) :
          /\ trace[i].op = "Extract"
          /\ trace[i].walk = 1
    /\ \E i \in 1..Len(trace) :
          /\ trace[i].op = "Extract"
          /\ trace[i].walk = 2
          /\ trace[i].root = RootOfWalk(2)
          /\ RootOfWalk(2) # RootOfWalk(1)

\* The handle that Open returns for the entry in the extractor loop cannot be
\* stat'ed.
HandleStatFails(rc) ==
    IF rc.err # None THEN FALSE ELSE FileStat(rc.file).err # None

\* The step runs an extractor (the history grows by its calls) that requires the
\* current entry, and opening the entry, or the stat through the open handle,
\* fails.
OpenOrStatFails ==
    /\ pc = "dispatch"
    /\ Len(trace') > Len(trace)
    /\ FileRequired(wc.extractors[exIdx], cur.path, cur.fileinfo)
    /\ \/ Open(wc.fs, cur.path).err # None
       \/ HandleStatFails(Open(wc.fs, cur.path))

\* The chain after is the chain before with one Open or stat failure for path
\* appended.
OneFailureAppended(before, after, path) ==
    /\ Len(after) = Len(before) + 1
    /\ SubSeq(after, 1, Len(before)) = before
    /\ after[Len(after)].path = path
    /\ after[Len(after)].op \in {"Open", "stat"}

\* Every plugin other than ex has the same errors in both maps.
OthersKeep(before, after, ex) ==
    \A k \in (DOMAIN before) \cup (DOMAIN after) :
        k # ex => MapGet(before, k, <<>>) = MapGet(after, k, <<>>)

\* C23: when opening the file, or the stat through the open handle, fails for an
\* extractor that requires the file, one error naming the file is appended to the
\* plugin's errors, Extract is not called, extract_calls, the found map and the
\* inventory are unchanged, and the loop goes on with the next extractor of the
\* same entry (or, after the last one, with the walk).
C23_OpenOrStatFailureSkipsExtractor ==
    [][ OpenOrStatFails =>
            /\ OneFailureAppended(MapGet(wc.errors, wc.extractors[exIdx], <<>>),
                                  MapGet(wc'.errors, wc.extractors[exIdx], <<>>),
                                  cur.path)
            /\ OthersKeep(wc.errors, wc'.errors, wc.extractors[exIdx])
            /\ \A i \in (Len(trace) + 1)..Len(trace') : trace'[i].op # "Extract"
            /\ wc'.extractCalls = wc.extractCalls
            /\ wc'.foundInv = wc.foundInv
            /\ wc'.inventory = wc.inventory
            /\ exIdx' = exIdx + 1
            /\ cur' = cur
            /\ todo' = todo
            /\ pc' = IF exIdx < Len(wc.extractors) THEN "dispatch" ELSE "walk" ]_vars

\* The call c was made in the extractor loop of the entry of call b, after it.
LaterOnSameEntry(b, c) ==
    /\ c.walk = b.walk
    /\ c.entry = b.entry
    /\ c.ex # b.ex

\* An Open failed for the first extractor and the second extractor was then run on
\* the same entry; on another entry a stat through the open handle failed; an
\* Extract call made afterwards returned inventory.
C23_Witness ==
    /\ \E i \in 1..Len(trace) :
          /\ trace[i].op = "Open"
          /\ ~trace[i].ok
          /\ i < Len(trace)
          /\ trace[i + 1].op = "FileRequired"
          /\ LaterOnSameEntry(trace[i], trace[i + 1])
    /\ \E i \in 1..Len(trace) :
          /\ trace[i].op = "Stat"
          /\ ~trace[i].ok
          /\ \A j \in 1..Len(trace) :
                (trace[j].entry = trace[i].entry /\ trace[j].walk = trace[i].walk
                 /\ trace[j].ex = trace[i].ex) => trace[j].op # "Extract"
    /\ pc = "done"
    /\ ret.err = None

\* The readers open after the first n calls of the history: those opened and not
\* closed since.
OpenReaders(n) ==
    Cardinality({i \in 1..n : trace[i].op = "Open" /\ trace[i].ok})
        - Cardinality({i \in 1..n : trace[i].op = "Close"})

\* Call i opened a reader, and the calls up to its Close are the calls of the
\* same extractor on the same entry.
ClosedBySameCall(i) ==
    \E j \in (i + 1)..Len(trace) :
        /\ trace[j].op = "Close"
        /\ \A k \in i..j :
              /\ trace[k].ex = trace[i].ex
              /\ trace[k].entry = trace[i].entry
              /\ trace[k].walk = trace[i].walk
        /\ \A k \in (i + 1)..(j - 1) : trace[k].op \notin {"Open", "Close"}

\* C24: every reader opened for an extractor is closed before the loop moves on,
\* whether the stat fails, Extract fails or Extract succeeds: at every point of
\* the run at most one reader is open, and after every step of the loop, so also
\* when a walk ends (normally, on the budget error or on cancellation), none is.
C24_ReadersClosed ==
    /\ \A n \in 0..Len(trace) : OpenReaders(n) \in {0, 1}
    /\ OpenReaders(Len(trace)) = 0
    /\ \A i \in 1..Len(trace) :
          (trace[i].op = "Open" /\ trace[i].ok) => ClosedBySameCall(i)

\* The result of call i, for a reader that was opened.
Outcome(i) ==
    IF trace[i].op = "Stat" /\ ~trace[i].ok THEN "stat failed"
    ELSE IF trace[i].op = "Extract" /\ ~trace[i].ok THEN "extract failed"
    ELSE IF trace[i].op = "Extract" /\ trace[i].ok THEN "extracted"
    ELSE "other"

\* A walk has ended on cancellation after readers were opened and closed on each
\* of the three paths: stat failure, Extract error, Extract success.
C24_Witness ==
    /\ pc = "done"
    /\ ret.err = ErrCanceled
    /\ \A o \in {"stat failed", "extract failed", "extracted"} :
          \E i \in 2..(Len(trace) - 1) :
              /\ Outcome(i) = o
              /\ trace[i + 1].op = "Close"

\* The type of the host entry that visit v was made for, as a listing of its
\* directory reports it (a symlink is a symlink, whatever it points to).
EntryKind(v) == Lookup(HostPath(v.root, v.path)).kind

\* C25: an entry is handed to the extractor loop only if it is a regular file, or
\* it is a symlink and read_symlinks is enabled: directories and special files
\* are never dispatched, and symlinks are not when read_symlinks is disabled.
C25_OnlyFilesDispatched ==
    \A i \in 1..Len(visits) :
        visits[i].dispatch =>
            \/ EntryKind(visits[i]) = "reg"
            \/ EntryKind(visits[i]) = "symlink" /\ config.ReadSymlinks

\* The number of positions at which the returned inventory holds the item.
Occurrences(item) ==
    Cardinality({m \in 1..Len(ret.inventory) : ret.inventory[m] = item})

\* The number of times the Extract calls of the run returned the item (as the
\* result holds it).
TimesReturned(item) ==
    Cardinality({m \in 1..Len(ItemsOfCalls(trace)) : ItemsOfCalls(trace)[m] = item})

\* C26: a Run over two or more scan roots that ends successfully returns every
\* item as many times as the Extract calls returned it (once for an item returned
\* once), and exactly one status per configured extractor, in configuration
\* order: what was gathered under an earlier root is not repeated for a later one.
C26_NothingRepeatedAcrossRoots ==
    (pc = "done" /\ ret.err = None /\ Len(config.Extractors) > 0
     /\ Len(config.ScanRoots) >= 2) =>
        /\ \A m \in 1..Len(ret.inventory) :
              Occurrences(ret.inventory[m]) = TimesReturned(ret.inventory[m])
        /\ Len(ret.status) = Len(config.Extractors)
        /\ \A i \in 1..Len(ret.status) : ret.status[i].Name = config.Extractors[i]

\* The user named the host directory abs in dirs_to_skip.
NamedToSkip(abs) ==
    \E i \in 1..Len(config.DirsToSkip) : Abs(config.DirsToSkip[i]) = abs

\* The skip regex is set and matches the path.
RegexSkips(path) ==
    config.SkipDirRegex # NilRegexp /\ MatchString(config.SkipDirRegex, path)

\* C27: a directory is pruned only if the user named it in dirs_to_skip or the
\* skip regex matches it: a directory under one root is not pruned because a
\* dirs_to_skip entry under another root has the same path relative to its root.
C27_OnlyNamedDirsPruned ==
    \A i \in 1..Len(visits) :
        visits[i].ret = SkipDir =>
            \/ NamedToSkip(HostPath(visits[i].root, visits[i].path))
            \/ RegexSkips(visits[i].path)

\* The names of the extractors of a scan configuration, of both kinds.
ConfiguredExtractorNames(r) ==
    {r.FilesystemExtractors[i].Name : i \in 1..Len(r.FilesystemExtractors)}
        \cup {r.StandaloneExtractors[i].Name : i \in 1..Len(r.StandaloneExtractors)}

\* Every detector of the scan configuration r has all the extractors it requires
\* in r.
PrerequisitesMet(r) ==
    \A k \in 1..Len(r.Detectors) :
        \A i \in 1..Len(r.Detectors[k].RequiredExtractors) :
            r.Detectors[k].RequiredExtractors[i] \in ConfiguredExtractorNames(r)

\* C28: when the flags have passed ValidateFlags with explicit_extractors set, the
\* scan configuration GetScanConfig builds from them has, for every detector in
\* it, every required extractor among its filesystem or standalone extractors,
\* also when filter_by_capabilities has removed plugins.
C28_ConfigKeepsPrerequisites ==
    (/\ cli.validated.called
     /\ ~IsErr(cli.validated.value)
     /\ cli.flags.ExplicitExtractors
     /\ cli.scanConfig.called
     /\ ~IsErr(cli.scanConfig.value.err)) => PrerequisitesMet(cli.scanConfig.value)

\* The names of the configured extractors.
ConfiguredNames == {config.Extractors[i] : i \in 1..Len(config.Extractors)}

\* The accumulated inventory holds an item that extractor name produced.
HoldsItemOf(name) ==
    \E m \in 1..Len(wc.inventory) : wc.inventory[m].Extractor = name

\* The found map and the error map agree with the inventory and the
\* configuration.
BookkeepingConsistent ==
    /\ \A name \in ConfiguredNames \cup DOMAIN wc.foundInv :
          MapGet(wc.foundInv, name, FALSE) <=> HoldsItemOf(name)
    /\ DOMAIN wc.foundInv \subseteq ConfiguredNames
    /\ DOMAIN wc.errors \subseteq ConfiguredNames

\* C29: in every reachable state found_inv[name] is true exactly when the
\* accumulated inventory holds an item produced by the extractor of that name,
\* every key of the error map and of the found map names a configured extractor,
\* and no step shortens or reorders the inventory: what it held stays, in place.
C29_BookkeepingMatchesInventory ==
    /\ []BookkeepingConsistent
    /\ [][IsPrefix(wc.inventory, wc'.inventory)]_vars

\* In the second root of a run, one extractor has found inventory and has no
\* error, the other has errors and has found nothing, and the inventory holds
\* items of both roots.
C29_Witness ==
    /\ rootIdx = 2
    /\ MapGet(wc.foundInv, "e1", FALSE)
    /\ "e1" \notin DOMAIN wc.errors
    /\ "e2" \in DOMAIN wc.errors
    /\ ~MapGet(wc.foundInv, "e2", FALSE)
    /\ Len(wc.inventory) >= 2

\* The step is one call of handleFile, up to its extractor loop, for the entry at
\* the head of the walker's pending entries.
HandlerStep ==
    /\ pc = "walk"
    /\ Len(visits') = Len(visits) + 1

\* The entry handed to the handler carries an I/O error, is a directory, or is a
\* special file (a symlink counts as one when symlinks are not read).
NeverExtracted(obs) ==
    \/ obs.fserr # None
    \/ obs.d = "dir"
    \/ obs.d \notin {"reg", "symlink"}
    \/ obs.d = "symlink" /\ ~config.ReadSymlinks

\* The step is one iteration of the extractor loop, for an extractor whose
\* FileRequired returns false for the current entry.
NotRequiredStep ==
    /\ pc = "dispatch"
    /\ Len(trace') > Len(trace)
    /\ ~FileRequired(wc.extractors[exIdx], cur.path, cur.fileinfo)

\* The walk context w with the inode counter and the status-line data of v.
WithCountersOf(w, v) ==
    [w EXCEPT !.inodesVisited = v.inodesVisited, !.lastStatus = v.lastStatus,
              !.lastInodes = v.lastInodes, !.lastExtracts = v.lastExtracts]

\* C30: handling an entry changes nothing but inodes_visited and the status-line
\* data as long as no extractor requires it. The part of handleFile before the
\* extractor loop leaves the inventory, the error map, the found map and
\* extract_calls as they were and calls nothing on a plugin or a file; an entry
\* with an I/O error, a directory and a dropped special file do not reach the
\* loop. An iteration of the loop for an extractor that does not require the
\* entry changes nothing in the walk context and makes the FileRequired call
\* only: no file is opened.
C30_UnrequiredEntryChangesCountersOnly ==
    [][ /\ HandlerStep =>
              /\ wc'.inodesVisited = wc.inodesVisited + 1
              /\ WithCountersOf(wc', wc) = wc
              /\ wc'.inventory = wc.inventory
              /\ wc'.errors = wc.errors
              /\ wc'.foundInv = wc.foundInv
              /\ wc'.extractCalls = wc.extractCalls
              /\ trace' = trace
              /\ NeverExtracted(Head(todo)) => pc' # "dispatch"
        /\ NotRequiredStep =>
              /\ wc' = wc
              /\ Len(trace') = Len(trace) + 1
              /\ trace'[Len(trace')].op = "FileRequired"
              /\ ~trace'[Len(trace')].ok
              /\ cur' = cur ]_vars

\* A walk finished without error in which a status line was printed after some
\* entries had been counted, a directory, an entry with an I/O error and a file
\* that no extractor requires were handled, and another file was extracted.
C30_Witness ==
    /\ pc = "done"
    /\ ret.err = None
    /\ wc.lastStatus > 0
    /\ wc.lastInodes > 0
    /\ \E i \in 1..Len(visits) : visits[i].d = "dir"
    /\ \E i \in 1..Len(visits) : visits[i].fserr # None
    /\ \E i \in 1..Len(visits) :
          /\ visits[i].dispatch
          /\ \A k \in 1..Len(trace) :
                (trace[k].walk = visits[i].walk /\ trace[k].entry = i)
                    => (trace[k].op = "FileRequired" /\ ~trace[k].ok)
          /\ \E k \in 1..Len(trace) :
                trace[k].walk = visits[i].walk /\ trace[k].entry = i
    /\ Len(wc.inventory) > 0

====
